---- MODULE Spec2Model ----
(***************************************************************************)
(* Goody fulfillment dashboard: the order status state machine, the        *)
(* report aggregator (report-generator.ts) and the shared report helpers   *)
(* (shared/src/types/report.ts, shared/src/types/order.ts).                *)
(*                                                                         *)
(* Time is an integer number of ticks; TicksPerDay ticks make one day.     *)
(* Percentages that the code keeps as JavaScript numbers are integers      *)
(* here; a value the code rounds to two decimals is kept in hundredths.    *)
(***************************************************************************)
EXTENDS Integers, Sequences, FiniteSets, TLC

\* ------------------------------------------------------------------ bounds
TicksPerDay == 1
MaxNow == 3
MaxWindowOrders == 3
MaxSummaryOrders == 3
MaxOrders == 1
MaxClock == 1
MaxRuns == 2
MaxStreamRuns == 1
RandomSteps == 151
MaxPicks == 2
MaxSuffix == 2
MaxBackfillDays == 2
MaxUnprocessed == 1
MaxChangesDuringRun == 1
MaxPathLen == 5
BatchLen == 2
ScanPageItems == 100

\* ------------------------------------------------- shared/types/order.ts
OrderStatus ==
  {"PLACED", "SHIPPING_ON_TIME", "SHIPPING_DELAYED", "ARRIVED", "LOST",
   "DAMAGED", "UNDELIVERABLE", "RETURN_TO_SENDER"}

NoDate == -1000

isTerminalStatus_NoReturn(status) ==
  status \in {"ARRIVED", "LOST", "DAMAGED", "UNDELIVERABLE"}

isTerminalStatus(status) ==
  status \in {"ARRIVED", "LOST", "DAMAGED", "UNDELIVERABLE", "RETURN_TO_SENDER"}

transitions_WithRecovery(from) ==
  CASE from = "PLACED" -> {"SHIPPING_ON_TIME", "SHIPPING_DELAYED", "LOST"}
    [] from = "SHIPPING_ON_TIME" -> {"ARRIVED", "SHIPPING_DELAYED", "LOST", "DAMAGED"}
    [] from = "SHIPPING_DELAYED" ->
         {"ARRIVED", "LOST", "DAMAGED", "UNDELIVERABLE", "RETURN_TO_SENDER",
          "SHIPPING_ON_TIME"}
    [] OTHER -> {}

transitions(from) ==
  CASE from = "PLACED" -> {"SHIPPING_ON_TIME", "SHIPPING_DELAYED", "LOST"}
    [] from = "SHIPPING_ON_TIME" -> {"ARRIVED", "SHIPPING_DELAYED", "LOST", "DAMAGED"}
    [] from = "SHIPPING_DELAYED" ->
         {"ARRIVED", "LOST", "DAMAGED", "UNDELIVERABLE", "RETURN_TO_SENDER"}
    [] OTHER -> {}

canTransitionTo(from, to) == to \in transitions(from)

calculateIsDelayed_GraceDay(estimatedDelivery, updatedAt) ==
  IF estimatedDelivery = NoDate \/ updatedAt = NoDate THEN FALSE
  ELSE updatedAt > estimatedDelivery + TicksPerDay

calculateIsDelayed(estimatedDelivery, updatedAt) ==
  IF estimatedDelivery = NoDate \/ updatedAt = NoDate THEN FALSE
  ELSE updatedAt > estimatedDelivery

\* ------------------------------------------------ shared/types/vendor.ts
\* baseReliability is kept in percent.
BACKFILL_VENDORS ==
  << [vendorId |-> "vendor-001", baseReliability |-> 95,
      commonIssues |-> <<"DAMAGED">>],
     [vendorId |-> "vendor-002", baseReliability |-> 92,
      commonIssues |-> <<"DAMAGED", "UNDELIVERABLE">>],
     [vendorId |-> "vendor-003", baseReliability |-> 87,
      commonIssues |-> <<"LOST", "DAMAGED">>],
     [vendorId |-> "vendor-004", baseReliability |-> 83,
      commonIssues |-> <<"UNDELIVERABLE", "RETURN_TO_SENDER">>],
     [vendorId |-> "vendor-005", baseReliability |-> 72,
      commonIssues |-> <<"LOST", "DAMAGED", "RETURN_TO_SENDER">>] >>

NumVendors == Len(BACKFILL_VENDORS)

VendorIds == {BACKFILL_VENDORS[i].vendorId : i \in 1..NumVendors}

VENDORS_MAP(vendorId) ==
  BACKFILL_VENDORS[CHOOSE i \in 1..NumVendors : BACKFILL_VENDORS[i].vendorId = vendorId]

\* ------------------------------------------------------ JavaScript numbers
\* The arithmetic of the report helpers is IEEE 754 binary64. A natural
\* number of any size is a sequence of limbs of LimbBits bits, least
\* significant first and without leading zero limbs; <<>> is 0.
LimbBits == 15

LimbBase == 32768

MantissaBits == 53

RECURSIVE BigOf(_)
BigOf(n) == IF n = 0 THEN <<>> ELSE <<n % LimbBase>> \o BigOf(n \div LimbBase)

RECURSIVE BigToInt(_)
BigToInt(a) == IF a = <<>> THEN 0 ELSE Head(a) + LimbBase * BigToInt(Tail(a))

RECURSIVE BigTrim(_)
BigTrim(a) ==
  IF a = <<>> \/ a[Len(a)] # 0 THEN a ELSE BigTrim(SubSeq(a, 1, Len(a) - 1))

BigLimb(a, i) == IF i <= Len(a) THEN a[i] ELSE 0

\* The limbs from the i-th on of a + b + carry: BigAdd(a, b, 1, 0) is a + b.
RECURSIVE BigAdd(_, _, _, _)
BigAdd(a, b, i, carry) ==
  IF i > Len(a) /\ i > Len(b)
  THEN (IF carry = 0 THEN <<>> ELSE <<carry>>)
  ELSE LET s == BigLimb(a, i) + BigLimb(b, i) + carry
       IN  <<s % LimbBase>> \o BigAdd(a, b, i + 1, s \div LimbBase)

\* The limbs from the i-th on of a - b - borrow for a >= b, leading zero
\* limbs included: BigTrim(BigSub(a, b, 1, 0)) is a - b.
RECURSIVE BigSub(_, _, _, _)
BigSub(a, b, i, borrow) ==
  IF i > Len(a) THEN <<>>
  ELSE LET d == a[i] - BigLimb(b, i) - borrow
       IN  <<d % LimbBase>> \o BigSub(a, b, i + 1, IF d < 0 THEN 1 ELSE 0)

\* -1, 0 or 1 as a is below, equal to or above b.
RECURSIVE BigCmp(_, _)
BigCmp(a, b) ==
  IF Len(a) < Len(b) THEN 0 - 1
  ELSE IF Len(a) > Len(b) THEN 1
  ELSE IF a = <<>> THEN 0
  ELSE IF a[Len(a)] < b[Len(a)] THEN 0 - 1
  ELSE IF a[Len(a)] > b[Len(a)] THEN 1
  ELSE BigCmp(SubSeq(a, 1, Len(a) - 1), SubSeq(b, 1, Len(a) - 1))

\* The limbs from the i-th on of a * k + carry for a limb k > 0.
RECURSIVE BigMulLimb(_, _, _, _)
BigMulLimb(a, k, i, carry) ==
  IF i > Len(a) THEN (IF carry = 0 THEN <<>> ELSE <<carry>>)
  ELSE LET p == a[i] * k + carry
       IN  <<p % LimbBase>> \o BigMulLimb(a, k, i + 1, p \div LimbBase)

\* a * LimbBase^n.
RECURSIVE BigShiftLimbs(_, _)
BigShiftLimbs(a, n) ==
  IF a = <<>> \/ n = 0 THEN a ELSE BigShiftLimbs(<<0>> \o a, n - 1)

\* a times the limbs of b from the i-th on: BigMul(a, b, 1) is a * b.
RECURSIVE BigMul(_, _, _)
BigMul(a, b, i) ==
  IF i > Len(b) THEN <<>>
  ELSE IF b[i] = 0 THEN BigMul(a, b, i + 1)
  ELSE BigAdd(BigShiftLimbs(BigMulLimb(a, b[i], 1, 0), i - 1), BigMul(a, b, i + 1), 1, 0)

\* a * 2^n.
BigShl(a, n) == BigShiftLimbs(BigMulLimb(a, 2 ^ (n % LimbBits), 1, 0), n \div LimbBits)

\* floor(a / p) for a power p of two that is at most LimbBase.
RECURSIVE BigShrFrom(_, _, _)
BigShrFrom(a, p, i) ==
  IF i > Len(a) THEN <<>>
  ELSE <<a[i] \div p + (BigLimb(a, i + 1) % p) * (LimbBase \div p)>>
         \o BigShrFrom(a, p, i + 1)

\* floor(a / 2^n).
BigShr(a, n) ==
  BigTrim(BigShrFrom(SubSeq(a, n \div LimbBits + 1, Len(a)), 2 ^ (n % LimbBits), 1))

\* The number of bits of a.
BigBitLen(a) ==
  IF a = <<>> THEN 0
  ELSE LimbBits * (Len(a) - 1)
         + (CHOOSE k \in 1..LimbBits : 2 ^ (k - 1) <= a[Len(a)] /\ a[Len(a)] < 2 ^ k)

\* A number is sign * mant * 2^exp, with mant of exactly MantissaBits bits,
\* or zero (sign 0). The values here are far from the subnormal range and
\* from overflow, and the sign of a zero is not kept.
DoubleZero == [sign |-> 0, mant |-> <<>>, exp |-> 0]

\* The number nearest to sign * n * 2^exp for a natural n, a tie going to
\* the even mantissa: n is cut to its first MantissaBits bits q, half tells
\* how the bits cut off compare with one half of the last bit kept (-1
\* below, 0 equal, 1 above), and a q that rounding up has made one bit longer
\* is halved.
RoundBig(sign, n, exp) ==
  IF n = <<>> \/ sign = 0 THEN DoubleZero
  ELSE LET Normal(q, e) ==
             IF BigBitLen(q) > MantissaBits
             THEN [sign |-> sign, mant |-> BigShr(q, 1), exp |-> e + 1]
             ELSE [sign |-> sign, mant |-> q, exp |-> e]
           Nearest(k, q, half) ==
             Normal(IF half > 0 \/ (half = 0 /\ q[1] % 2 = 1)
                    THEN BigAdd(q, <<1>>, 1, 0) ELSE q, exp + k)
           Split(k, q) ==
             Nearest(k, q, BigCmp(BigTrim(BigSub(n, BigShl(q, k), 1, 0)),
                                  BigShl(<<1>>, k - 1)))
           Shift(k) ==
             IF k <= 0
             THEN [sign |-> sign, mant |-> BigShl(n, 0 - k), exp |-> exp + k]
             ELSE Split(k, BigShr(n, k))
       IN  Shift(BigBitLen(n) - MantissaBits)

\* Long division: bits more quotient bits of r / d for r < 2 * d, appended
\* to the bits q (bits <= LimbBits, so that q stays one limb). The result
\* holds the quotient bits and twice the remainder.
RECURSIVE DivBits(_, _, _, _)
DivBits(r, d, bits, q) ==
  IF bits = 0 THEN [q |-> q, r |-> r]
  ELSE IF BigCmp(r, d) >= 0
  THEN DivBits(BigShl(BigTrim(BigSub(r, d, 1, 0)), 1), d, bits - 1, 2 * q + 1)
  ELSE DivBits(BigShl(r, 1), d, bits - 1, 2 * q)

\* The same for limbs whole limbs of quotient bits.
RECURSIVE DivLimbs(_, _, _)
DivLimbs(r, d, limbs) ==
  IF limbs = 0 THEN [q |-> <<>>, r |-> r]
  ELSE LET Join(high, low) == [q |-> Append(low.q, high.q), r |-> low.r]
           Low(high) == Join(high, DivLimbs(high.r, d, limbs - 1))
       IN  Low(DivBits(r, d, LimbBits, 0))

\* The number an integer literal, a count or an array length denotes (a
\* magnitude below 2^MantissaBits, which needs no rounding).
DoubleOf(n) ==
  IF n = 0 THEN DoubleZero
  ELSE LET Normal(mant, len) ==
             [sign |-> IF n < 0 THEN 0 - 1 ELSE 1,
              mant |-> BigShl(mant, MantissaBits - len), exp |-> len - MantissaBits]
           Magnitude(mant) == Normal(mant, BigBitLen(mant))
       IN  Magnitude(BigOf(IF n < 0 THEN 0 - n ELSE n))

\* x - y: the mantissas are brought to the smaller exponent and added or
\* subtracted exactly, and the result is rounded.
DoubleSub(x, y) ==
  IF y.sign = 0 THEN x
  ELSE IF x.sign = 0 THEN [y EXCEPT !.sign = 0 - y.sign]
  ELSE LET e == IF x.exp < y.exp THEN x.exp ELSE y.exp
           Ordered(a, b, c) ==
             RoundBig(IF x.sign # y.sign \/ c > 0 THEN x.sign ELSE 0 - x.sign,
                      IF x.sign # y.sign THEN BigAdd(a, b, 1, 0)
                      ELSE IF c >= 0 THEN BigTrim(BigSub(a, b, 1, 0))
                      ELSE BigTrim(BigSub(b, a, 1, 0)),
                      e)
           Aligned(a, b) == Ordered(a, b, BigCmp(a, b))
       IN  Aligned(BigShl(x.mant, x.exp - e), BigShl(y.mant, y.exp - e))

\* x * y
DoubleMul(x, y) ==
  IF x.sign = 0 \/ y.sign = 0 THEN DoubleZero
  ELSE RoundBig(x.sign * y.sign, BigMul(x.mant, y.mant, 1), x.exp + y.exp)

\* x / y for y # 0 (every division of the helpers is guarded by a test of
\* the divisor against 0). The mantissas have the same length, so their
\* quotient, doubled when it is below 1, lies in [1, 2); its first
\* MantissaBits + 2 bits, followed by a bit that tells whether the division
\* left a remainder, round as the quotient itself does.
DoubleDiv(x, y) ==
  IF x.sign = 0 \/ y.sign = 0 THEN DoubleZero
  ELSE LET bits == MantissaBits + 2
           Rounded(below, top, rest) ==
             RoundBig(x.sign * y.sign,
                      BigAdd(BigShl(Append(rest.q, top.q), 1),
                             IF rest.r = <<>> THEN <<>> ELSE <<1>>, 1, 0),
                      x.exp - y.exp - bits - (IF below THEN 1 ELSE 0))
           Quotient(below, top) ==
             Rounded(below, top, DivLimbs(top.r, y.mant, bits \div LimbBits))
           Divide(below) ==
             Quotient(below, DivBits(IF below THEN BigShl(x.mant, 1) ELSE x.mant,
                                     y.mant, bits % LimbBits, 0))
       IN  Divide(BigCmp(x.mant, y.mant) < 0)

\* Math.round(x): the integer nearest to x, a tie going up.
MathRound(x) ==
  IF x.sign = 0 THEN 0
  ELSE IF x.exp >= 0 THEN x.sign * BigToInt(BigShl(x.mant, x.exp))
  ELSE LET Nearest(whole, half) ==
             IF x.sign > 0 THEN whole + (IF half >= 0 THEN 1 ELSE 0)
             ELSE 0 - (whole + (IF half > 0 THEN 1 ELSE 0))
           Split(k, whole) ==
             Nearest(BigToInt(whole),
                     BigCmp(BigTrim(BigSub(x.mant, BigShl(whole, k), 1, 0)),
                            BigShl(<<1>>, k - 1)))
       IN  Split(0 - x.exp, BigShr(x.mant, 0 - x.exp))

\* ------------------------------------------------ shared/types/report.ts
\* Math.round((numerator / denominator) * 100) for denominator > 0.
RoundPercent(numerator, denominator) ==
  MathRound(DoubleMul(DoubleDiv(DoubleOf(numerator), DoubleOf(denominator)),
                      DoubleOf(100)))

calculateReliabilityScore(statusCounts) ==
  LET totalCompleted == statusCounts["ARRIVED"] + statusCounts["LOST"]
                          + statusCounts["DAMAGED"] + statusCounts["UNDELIVERABLE"]
                          + statusCounts["RETURN_TO_SENDER"]
  IN  IF totalCompleted = 0 THEN 0
      ELSE RoundPercent(statusCounts["ARRIVED"], totalCompleted)

calculateOnTimePercentage(onTimeDeliveries, totalDelivered) ==
  IF totalDelivered = 0 THEN 0
  ELSE RoundPercent(onTimeDeliveries, totalDelivered)

Abs(x) == IF x < 0 THEN -x ELSE x

\* The default threshold 0.05, in percent.
TrendThresholdPercent == 5

\* change = Math.abs(current - previous) / previous is NaN for 0/0 and
\* Infinity for x/0 with x > 0; neither is below the threshold, and NaN
\* compares false with everything. A negative previous makes change <= 0.
calculateTrendDirection_Inclusive(current, previous) ==
  LET changeBelowThreshold ==
        \/ previous < 0
        \/ /\ previous > 0
           /\ 100 * Abs(current - previous) <= TrendThresholdPercent * previous
  IN  IF changeBelowThreshold THEN "stable"
      ELSE IF current > previous THEN "up" ELSE "down"

calculateTrendDirection(current, previous) ==
  LET changeBelowThreshold ==
        \/ previous < 0
        \/ /\ previous > 0
           /\ 100 * Abs(current - previous) < TrendThresholdPercent * previous
  IN  IF changeBelowThreshold THEN "stable"
      ELSE IF current > previous THEN "up" ELSE "down"

calculateIssueCount(statusCounts) ==
  statusCounts["LOST"] + statusCounts["DAMAGED"] + statusCounts["UNDELIVERABLE"]
    + statusCounts["RETURN_TO_SENDER"]

isVendorAtRisk(reliabilityScore) == reliabilityScore < 85

\* ------------------------------------------ backend/report-generator.ts
\* An Order[] is a sequence of order records.
calculateStatusCounts_SkipPlaced(orders) ==
  [s \in OrderStatus |->
     IF s = "PLACED" THEN 0
     ELSE Cardinality({i \in 1..Len(orders) : orders[i].status = s})]

calculateStatusCounts(orders) ==
  [s \in OrderStatus |-> Cardinality({i \in 1..Len(orders) : orders[i].status = s})]

calculateOnTimeDeliveries(orders) ==
  Cardinality({i \in 1..Len(orders) :
     /\ orders[i].status = "ARRIVED"
     /\ orders[i].actualDelivery # NoDate
     /\ orders[i].estimatedDelivery # NoDate
     /\ orders[i].actualDelivery <= orders[i].estimatedDelivery})

RECURSIVE SumSeq(_)
SumSeq(scores) ==
  IF scores = <<>> THEN 0 ELSE Head(scores) + SumSeq(Tail(scores))

\* The average delivery time of a window: the sum of deliveryDays over the
\* orders that have the field, divided by their number; undefined (defined
\* FALSE) when no order of the window has it.
avgDeliveryTime(orders) ==
  LET deliveredOrders == SelectSeq(orders, LAMBDA order : "deliveryDays" \in DOMAIN order)
      days == [i \in 1..Len(deliveredOrders) |-> deliveredOrders[i].deliveryDays]
  IN  IF Len(deliveredOrders) > 0
      THEN [defined |-> TRUE,
            value |-> DoubleDiv(DoubleOf(SumSeq(days)), DoubleOf(Len(deliveredOrders)))]
      ELSE [defined |-> FALSE, value |-> DoubleZero]

\* The metrics of one window as generateVendorReport computes them.
WindowMetrics(orders) ==
  LET statusCounts == calculateStatusCounts(orders)
      onTimeDeliveries == calculateOnTimeDeliveries(orders)
      totalOrders == Len(orders)
  IN  [statusCounts |-> statusCounts,
       totalOrders |-> totalOrders,
       onTimeDeliveries |-> onTimeDeliveries,
       onTimePercentage |-> calculateOnTimePercentage(onTimeDeliveries, totalOrders),
       issueCount |-> calculateIssueCount(statusCounts),
       avgDeliveryTime |-> avgDeliveryTime(orders),
       reliabilityScore |-> calculateReliabilityScore(statusCounts)]

\* The scores of the catalog vendors that have an order in the window, in
\* catalog order (the loop over VENDORS_MAP.values()).
RECURSIVE vendorReliabilities_All(_, _)
vendorReliabilities_All(orders, i) ==
  IF i > NumVendors THEN <<>>
  ELSE LET vendorOrders ==
             SelectSeq(orders, LAMBDA o : o.vendorId = BACKFILL_VENDORS[i].vendorId)
       IN  <<calculateReliabilityScore(calculateStatusCounts(vendorOrders))>>
             \o vendorReliabilities_All(orders, i + 1)

RECURSIVE vendorReliabilities(_, _)
vendorReliabilities(orders, i) ==
  IF i > NumVendors THEN <<>>
  ELSE LET vendorOrders ==
             SelectSeq(orders, LAMBDA o : o.vendorId = BACKFILL_VENDORS[i].vendorId)
           rest == vendorReliabilities(orders, i + 1)
       IN  IF Len(vendorOrders) > 0
           THEN <<calculateReliabilityScore(calculateStatusCounts(vendorOrders))>> \o rest
           ELSE rest

\* The mean of the scores: reduce(sum + score, 0) / length, and 0 for no score.
overallReliability(scoreSum, scoreCount) ==
  IF scoreCount > 0 THEN DoubleDiv(DoubleOf(scoreSum), DoubleOf(scoreCount))
  ELSE DoubleZero

\* Math.round(x * 100) / 100, in hundredths.
overallReliabilityX100(scores) ==
  MathRound(DoubleMul(overallReliability(SumSeq(scores), Len(scores)), DoubleOf(100)))

\* One window of the DashboardSummary as generateDashboardSummary computes it.
SummaryWindow(orders) ==
  LET Window(scores) ==
        [overallReliabilityX100 |-> overallReliabilityX100(scores),
         totalActiveOrders |->
           Len(SelectSeq(orders, LAMBDA o :
                 o.status \in {"PLACED", "SHIPPING_ON_TIME", "SHIPPING_DELAYED"})),
         totalDelayedOrders |-> Len(SelectSeq(orders, LAMBDA o : o.isDelayed)),
         atRiskVendors |-> Len(SelectSeq(scores, LAMBDA score : score < 85))]
  IN  Window(vendorReliabilities(orders, 1))

calculatePercentageChange(current, previous) ==
  IF previous.sign = 0
  THEN (IF current.sign > 0 THEN DoubleOf(100) ELSE DoubleOf(0))
  ELSE DoubleMul(DoubleDiv(DoubleSub(current, previous), previous), DoubleOf(100))

\* trends.reliabilityTrend, in hundredths, of two windows whose scores have
\* the given sums and counts.
calculatePercentageChangeX100(currentSum, currentN, previousSum, previousN) ==
  MathRound(DoubleMul(calculatePercentageChange(overallReliability(currentSum, currentN),
                                                overallReliability(previousSum, previousN)),
                      DoubleOf(100)))

CurrentDaysBack == 7

PreviousDaysBack == 14

\* cutoffDate.setDate(cutoffDate.getDate() - daysBack) on the clock value now.
cutoffDate(now, daysBack) == now - daysBack * TicksPerDay

\* new Date().toISOString().split('T')[0]: the day the clock value lies in.
DateOf(now) == now \div TicksPerDay

\* One ScanCommand without ExclusiveStartKey: the store evaluates the first
\* page of the table (1 MB of items, here ScanPageItems items), applies the
\* filter to it and returns the rest of the table under LastEvaluatedKey,
\* which the callers do not read.
scanPage(table) ==
  SubSeq(table, 1, IF Len(table) < ScanPageItems THEN Len(table) ELSE ScanPageItems)

\* The result of the ScanCommand of getVendorOrders, whose :cutoffDate the
\* handler computed before it sent the request, on the table as the store
\* holds it when it evaluates the request.
getVendorOrders(table, vendorId, cutoff) ==
  SelectSeq(scanPage(table), LAMBDA o : o.vendorId = vendorId /\ o.createdAt >= cutoff)

getAllOrders(table, cutoff) ==
  SelectSeq(scanPage(table), LAMBDA o : o.createdAt >= cutoff)

\* The filter of the 14-day scan down to the previous window.
previousOnly(previous7dOrders, now) ==
  SelectSeq(previous7dOrders, LAMBDA o : o.createdAt < cutoffDate(now, CurrentDaysBack))

\* The report record generateVendorReport builds from the two windows.
VendorReportOf(vendorId, current7dOrders, previousOnlyOrders, now) ==
  LET Report(current, previous) ==
        [vendorId |-> vendorId,
         date |-> DateOf(now),
         current7d |-> current,
         previous7d |-> previous,
         trends |->
           [reliabilityScoreDelta |-> current.reliabilityScore - previous.reliabilityScore,
            volumeDelta |-> current.totalOrders - previous.totalOrders,
            onTimePercentageDelta |-> current.onTimePercentage - previous.onTimePercentage,
            issueCountDelta |-> current.issueCount - previous.issueCount,
            trendDirection |->
              calculateTrendDirection(current.reliabilityScore, previous.reliabilityScore)],
         updatedAt |-> now]
  IN  Report(WindowMetrics(current7dOrders), WindowMetrics(previousOnlyOrders))

\* The summary record generateDashboardSummary builds from the two windows.
DashboardSummaryOf(current7dOrders, previousOnlyOrders, now) ==
  LET Summary(current, previous, currentScores, previousScores) ==
        [summaryId |-> "DAILY_SUMMARY",
         date |-> DateOf(now),
         current7d |-> current,
         previous7d |-> previous,
         trends |->
           [reliabilityTrendX100 |->
              calculatePercentageChangeX100(SumSeq(currentScores), Len(currentScores),
                                            SumSeq(previousScores), Len(previousScores)),
            activeOrdersTrend |-> current.totalActiveOrders - previous.totalActiveOrders,
            delayedOrdersTrend |-> current.totalDelayedOrders - previous.totalDelayedOrders,
            atRiskVendorsTrend |-> current.atRiskVendors - previous.atRiskVendors],
         updatedAt |-> now]
  IN  Summary(SummaryWindow(current7dOrders), SummaryWindow(previousOnlyOrders),
              vendorReliabilities(current7dOrders, 1),
              vendorReliabilities(previousOnlyOrders, 1))

\* The document client is DynamoDBDocumentClient.from(dynamoClient), without
\* marshallOptions.removeUndefinedValues: marshalling an item that holds an
\* undefined value throws, and the command is never answered by the store.
\* The one value of the records built here that can be undefined is the
\* avgDeliveryTime of a window.
marshallable(item) ==
  \A w \in {"current7d", "previous7d"} \cap DOMAIN item :
    "avgDeliveryTime" \in DOMAIN item[w] => item[w].avgDeliveryTime.defined

\* ------------------------------- infrastructure/goody-dashboard-stack.ts
\* The reports table has partition key vendorId and sort key date; a put of
\* an item without a key attribute is rejected by the store. A PutCommand
\* succeeds when its item can be marshalled and carries the key.
PutAccepted(item) == marshallable(item) /\ {"vendorId", "date"} \subseteq DOMAIN item

PutReport(table, item) ==
  {r \in table : ~(r.vendorId = item.vendorId /\ r.date = item.date)} \cup {item}

\* ---------------------------------------------- backend/data-backfill.ts
\* Math.random() is random / RandomSteps for a random in Random, so that
\* Math.floor(Math.random() * n) is (random * n) \div RandomSteps.
Random == 0 .. RandomSteps - 1

ORDER_PATTERNS ==
  [dailyVolumeRange |-> <<50, 200>>,
   businessDayMultiplierTenths |-> 15,
   weekendMultiplierTenths |-> 6]

\* date.getDay(): 0 is Sunday, 6 is Saturday.
calculateDailyOrderCount_SaturdayOnly(dayOfWeek, random) ==
  LET isWeekend == dayOfWeek = 6
      range == ORDER_PATTERNS.dailyVolumeRange
      baseCount == (random * (range[2] - range[1] + 1)) \div RandomSteps + range[1]
      multiplier == IF isWeekend THEN ORDER_PATTERNS.weekendMultiplierTenths
                    ELSE ORDER_PATTERNS.businessDayMultiplierTenths
  IN  (baseCount * multiplier) \div 10

calculateDailyOrderCount(dayOfWeek, random) ==
  LET isWeekend == dayOfWeek = 0 \/ dayOfWeek = 6
      range == ORDER_PATTERNS.dailyVolumeRange
      baseCount == (random * (range[2] - range[1] + 1)) \div RandomSteps + range[1]
      multiplier == IF isWeekend THEN ORDER_PATTERNS.weekendMultiplierTenths
                    ELSE ORDER_PATTERNS.businessDayMultiplierTenths
  IN  (baseCount * multiplier) \div 10

\* Math.ceil((vendor.baseReliability || 0.8) * 10), baseReliability in percent.
vendorWeight_Floor(vendor) ==
  (IF vendor.baseReliability = 0 THEN 80 ELSE vendor.baseReliability) \div 10

vendorWeight(vendor) ==
  ((IF vendor.baseReliability = 0 THEN 80 ELSE vendor.baseReliability) + 9) \div 10

\* The table the forEach builds: weight copies of each vendor, catalog order.
RECURSIVE weightedVendors(_)
weightedVendors(i) ==
  IF i > NumVendors THEN <<>>
  ELSE [k \in 1..vendorWeight(BACKFILL_VENDORS[i]) |-> BACKFILL_VENDORS[i]]
         \o weightedVendors(i + 1)

selectWeightedVendor(random) ==
  LET table == weightedVendors(1)
      randomIndex == (random * Len(table)) \div RandomSteps
  IN  table[randomIndex + 1]

\* The Math.random() calls of createBackfilledOrder and of
\* generateOrderProgression, one field per call. Times are whole ticks: a
\* time that the code adds as a fraction of a day is rounded up to the tick,
\* which keeps every comparison with an estimate that lies on a tick.
\*   suffix     the random part of the order id
\*   timeOfDay  the time of day of createdAt (6:00 to 22:59:59)
\*   isRush     Math.random() < rushOrderPercentage
\*   random     the success draw, as a member of Random
\*   days       Math.floor(Math.random() * 3) + 2
\*   jitter     (Math.random() - 0.5) * 2 days
\*   common     Math.random() < 0.7
\*   pick       the draw of the index into the issue list, as a member of Random
\*   offset     Math.random() * 3 days
PickRandoms == {(k * RandomSteps + 3) \div 4 : k \in 0..3}

ProgressionDraws ==
  [suffix : 1..MaxSuffix,
   timeOfDay : ((6 * TicksPerDay) \div 24) .. ((23 * TicksPerDay - 1) \div 24),
   isRush : BOOLEAN,
   random : {0, (4 * RandomSteps) \div 5, RandomSteps - 1},
   days : 2..4,
   jitter : (0 - TicksPerDay) .. TicksPerDay,
   common : BOOLEAN,
   pick : PickRandoms,
   offset : 0 .. 3 * TicksPerDay]

\* Math.ceil((time - createdAt) / one day)
CeilDays(ticks) == (ticks + TicksPerDay - 1) \div TicksPerDay

generateOrderProgression(vendor, createdAt, isRush, draw) ==
  LET reliability == IF vendor.baseReliability = 0 THEN 80 ELSE vendor.baseReliability
      deliveryDays == IF isRush THEN 1 ELSE draw.days
      estimatedDelivery == createdAt + deliveryDays * TicksPerDay
      commonIssues == vendor.commonIssues
      possibleIssues == <<"LOST", "DAMAGED", "UNDELIVERABLE", "RETURN_TO_SENDER">>
  IN  IF 1000 * draw.random < 9 * reliability * RandomSteps
      THEN LET actualDeliveryTime == estimatedDelivery + draw.jitter
           IN  [status |-> "ARRIVED",
                estimatedDelivery |-> estimatedDelivery,
                actualDelivery |-> actualDeliveryTime,
                isDelayed |-> actualDeliveryTime > estimatedDelivery,
                deliveryDays |-> CeilDays(actualDeliveryTime - createdAt)]
      ELSE LET issueStatus ==
                 IF Len(commonIssues) > 0 /\ draw.common
                 THEN commonIssues[(draw.pick * Len(commonIssues)) \div RandomSteps + 1]
                 ELSE possibleIssues[(draw.pick * Len(possibleIssues)) \div RandomSteps + 1]
               issueTime == estimatedDelivery + draw.offset
           IN  [status |-> issueStatus,
                estimatedDelivery |-> estimatedDelivery,
                actualDelivery |-> issueTime,
                isDelayed |-> TRUE,
                deliveryDays |-> CeilDays(issueTime - createdAt)]

createBackfilledOrder_InTransit(baseDate, vendor, draw) ==
  LET createdAt == baseDate + draw.timeOfDay
      progression == generateOrderProgression(vendor, createdAt, draw.isRush, draw)
  IN  [orderId |-> <<baseDate, draw.suffix>>,
       vendorId |-> vendor.vendorId,
       status |-> IF progression.status = "ARRIVED" THEN "ARRIVED"
                  ELSE "SHIPPING_DELAYED",
       createdAt |-> createdAt,
       updatedAt |-> progression.actualDelivery,
       estimatedDelivery |-> progression.estimatedDelivery,
       actualDelivery |-> progression.actualDelivery,
       isDelayed |-> progression.isDelayed,
       deliveryDays |-> progression.deliveryDays,
       isBackfilled |-> TRUE]

\* The order record, without the gift fields. The order id is the base date
\* and the random suffix.
createBackfilledOrder(baseDate, vendor, draw) ==
  LET createdAt == baseDate + draw.timeOfDay
      progression == generateOrderProgression(vendor, createdAt, draw.isRush, draw)
  IN  [orderId |-> <<baseDate, draw.suffix>>,
       vendorId |-> vendor.vendorId,
       status |-> progression.status,
       createdAt |-> createdAt,
       updatedAt |-> progression.actualDelivery,
       estimatedDelivery |-> progression.estimatedDelivery,
       actualDelivery |-> progression.actualDelivery,
       isDelayed |-> progression.isDelayed,
       deliveryDays |-> progression.deliveryDays,
       isBackfilled |-> TRUE]

\* A PutRequest of a BatchWriteCommand on the orders table (partition key
\* orderId): the item replaces a stored item with the same key.
PutOrder(table, item) ==
  IF \E i \in 1..Len(table) : table[i].orderId = item.orderId
  THEN [i \in 1..Len(table) |->
          IF table[i].orderId = item.orderId THEN item ELSE table[i]]
  ELSE Append(table, item)

\* batchWriteOrders: the slice orders.slice(i, i + batchSize).
batchSize == 25

Min(a, b) == IF a < b THEN a ELSE b

batchSlice_Inclusive(orders, i) ==
  SubSeq(orders, i + 1, Min(i + batchSize + 1, Len(orders)))

batchSlice(orders, i) == SubSeq(orders, i + 1, Min(i + batchSize, Len(orders)))

\* The puts of one BatchWriteCommand, item by item.
RECURSIVE BatchWrite(_, _)
BatchWrite(table, batch) ==
  IF batch = <<>> THEN table
  ELSE BatchWrite(PutOrder(table, Head(batch)), Tail(batch))

\* The random numbers one order of a day consumes, as a function of the
\* order's position k in the day: the vendor selector's, and the draws of
\* createBackfilledOrder. The suffixes of a day are distinct.
orderDrawOf(k) ==
  [suffix |-> k,
   timeOfDay |-> (6 * TicksPerDay) \div 24,
   isRush |-> (k % 7 = 0),
   random |-> (k * 37) % RandomSteps,
   days |-> 2 + (k % 3),
   jitter |-> 0,
   common |-> (k % 2 = 0),
   pick |-> ((k % 4) * RandomSteps + 3) \div 4,
   offset |-> k % 2]

\* The handler's inner loop: dailyOrderCount orders for the date.
generateDailyOrders(date, dailyOrderCount) ==
  [k \in 1..dailyOrderCount |->
     createBackfilledOrder(date, selectWeightedVendor((k * 53) % RandomSteps), orderDrawOf(k))]

VARIABLES advOrder, advNow, advLast, winOrders, winMetrics, scoreCounts, scoreValue,
          trCurrent, trPrevious, trDirection, sumOrders, sumWindow,
          ordersTable, clock, reportsTable, pc, vendorIndex,
          current7dOrders, previous7dOrders, previousOnlyOrders,
          reports, dashboardSummary, response, runs, storeCalls, failedCall, scanCutoff,
          prevReports, inputChanged,
          bfPc, bfEpochDay, bfDay, bfDailyOrders, bfI, bfRequests, totalOrderCount,
          bfResponse, bfCalls, bfFailedCall, bfUnprocessed, bfDropped,
          bfTriggerLen, changesDuringRun, gPath, gTried,
          batchInput, batchOrders, batchIndex, batchResult, batchEvents,
          cntDayOfWeek, cntRandom, cntCount, selRandom, selPicks, genOrder

advVars == <<advOrder, advNow, advLast>>

\* scoreCounts is a record of status counts and scoreValue the reliability
\* score computed from it, -1 before.
winVars == <<winOrders, winMetrics, scoreCounts, scoreValue>>

trVars == <<trCurrent, trPrevious, trDirection>>

sumVars == <<sumOrders, sumWindow>>

storeVars == <<ordersTable, clock, reportsTable>>

\* runs counts the invocations of the handler; storeCalls counts the store
\* calls (scans and puts) the current invocation has issued and failedCall is
\* the number of the call that failed, 0 while none has. scanCutoff is the
\* :cutoffDate of the ScanCommand in flight, NoDate while none is: at
\* vendor_current, vendor_previous, summary_current and summary_previous the
\* handler first computes the cutoff and sends the request, and the store
\* evaluates the request later.
runVars == <<pc, vendorIndex, current7dOrders, previous7dOrders, previousOnlyOrders,
             reports, dashboardSummary, response, runs, storeCalls, failedCall,
             scanCutoff>>

\* inputChanged tells whether the orders or the clock have changed since the
\* latest invocation started; prevReports is the reports list of the
\* invocation before the current one when both started on the same orders
\* and the same now, and empty otherwise. changesDuringRun counts the
\* changes of the orders table and of the clock that have happened while the
\* current invocation was running.
rerunVars == <<prevReports, inputChanged, changesDuringRun>>

\* The data-backfill handler: bfEpochDay is the day of the week of the day
\* clock value 0 lies in, as the handler finds the calendar, bfDay the loop variable day, bfI the loop variable i of
\* batchWriteOrders, bfRequests the requests sent for the current day,
\* bfCalls the number of store calls issued and bfFailedCall the number of
\* the call that failed, 0 while none has. bfUnprocessed holds, for each
\* request of the current day, the UnprocessedItems of its response, and
\* bfDropped counts the items the store has returned unprocessed so far.
\* bfTriggerLen is the number of orders stored when the order stream invoked
\* the report generator.
bfVars == <<bfPc, bfEpochDay, bfDay, bfDailyOrders, bfI, bfRequests, totalOrderCount,
            bfResponse, bfCalls, bfFailedCall, bfUnprocessed, bfDropped,
            bfTriggerLen>>

\* An order whose status changes are guarded by canTransitionTo: gPath is
\* the sequence of statuses it has had, gTried the latest requested
\* transition and whether the guard accepted it.
graphVars == <<gPath, gTried>>

\* A batch of the live order driver: batchInput is the batch as received,
\* batchOrders the orders as the batch leaves them, batchIndex the position
\* of the next order, batchResult the aggregate result and batchEvents the
\* status-change notifications emitted.
batchVars == <<batchInput, batchOrders, batchIndex, batchResult, batchEvents>>

aggVars == <<storeVars, runVars, rerunVars, bfVars, graphVars, batchVars>>

cntVars == <<cntDayOfWeek, cntRandom, cntCount>>

selVars == <<selRandom, selPicks>>

backfillVars == <<cntVars, selVars, genOrder>>

pureVars == <<advVars, winVars, trVars, sumVars, backfillVars>>

otherVars == <<pureVars, rerunVars, bfVars, graphVars, batchVars>>

vars == <<advVars, winVars, trVars, sumVars, aggVars, backfillVars>>

NoSummary == [summaryId |-> "none"]

NoResponse == [statusCode |-> 0]

AggParked ==
  /\ ordersTable = <<>>
  /\ clock = 0
  /\ reportsTable = {}
  /\ pc = "idle"
  /\ vendorIndex = 0
  /\ current7dOrders = <<>>
  /\ previous7dOrders = <<>>
  /\ previousOnlyOrders = <<>>
  /\ reports = <<>>
  /\ dashboardSummary = NoSummary
  /\ response = NoResponse
  /\ runs = 0
  /\ storeCalls = 0
  /\ failedCall = 0
  /\ scanCutoff = NoDate
  /\ prevReports = <<>>
  /\ inputChanged = FALSE
  /\ bfPc = "idle"
  /\ bfEpochDay = 0
  /\ bfDay = 0
  /\ bfDailyOrders = <<>>
  /\ bfI = 0
  /\ bfRequests = <<>>
  /\ totalOrderCount = 0
  /\ bfResponse = NoResponse
  /\ bfCalls = 0
  /\ bfFailedCall = 0
  /\ bfUnprocessed = <<>>
  /\ bfDropped = 0
  /\ bfTriggerLen = 0
  /\ changesDuringRun = 0
  /\ gPath = <<>>
  /\ gTried = [to |-> "none", accepted |-> FALSE]
  /\ batchInput = <<>>
  /\ batchOrders = <<>>
  /\ batchIndex = 0
  /\ batchResult = [processed |-> 0, skipped |-> 0, errors |-> <<>>]
  /\ batchEvents = <<>>

NoCount == -1

CntParked == cntDayOfWeek = 0 /\ cntRandom = 0 /\ cntCount = NoCount

SelParked == selRandom = 0 /\ selPicks = <<>>

NoOrder == [orderId |-> <<>>]

GenParked == genOrder = NoOrder

BackfillParked == CntParked /\ SelParked /\ GenParked

TrParked == trCurrent = 0 /\ trPrevious = 0 /\ trDirection = "none"

SumParked == sumOrders = <<>> /\ sumWindow = SummaryWindow(<<>>)

WinParked ==
  /\ winOrders = <<>>
  /\ winMetrics = WindowMetrics(<<>>)
  /\ scoreCounts = calculateStatusCounts(<<>>)
  /\ scoreValue = 0 - 1

\* ------------------------------------------- order status state machine
\* The random source of one advance call: coin is the reliability draw in
\* percent, the others are the outcomes of the fixed-probability draws.
Draws ==
  [coin : {0, 80, 99}, complete : BOOLEAN, lost : BOOLEAN, issue : BOOLEAN,
   common : BOOLEAN, pick : 0..3]

IssueStatuses == <<"LOST", "DAMAGED", "UNDELIVERABLE", "RETURN_TO_SENDER">>

isOverdue(order, now) ==
  order.estimatedDelivery # NoDate /\ now > order.estimatedDelivery

resolveIssue(vendor, draw) ==
  IF draw.common /\ Len(vendor.commonIssues) > 0
  THEN vendor.commonIssues[(draw.pick % Len(vendor.commonIssues)) + 1]
  ELSE IssueStatuses[(draw.pick % Len(IssueStatuses)) + 1]

advance_PlacedLost(order, vendor, now, draw) ==
  IF isTerminalStatus(order.status) THEN order.status
  ELSE IF order.status = "PLACED" THEN
    IF draw.lost THEN "LOST"
    ELSE IF isOverdue(order, now) \/ draw.coin >= vendor.baseReliability
    THEN "SHIPPING_DELAYED" ELSE "SHIPPING_ON_TIME"
  ELSE IF order.status = "SHIPPING_ON_TIME" THEN
    IF isOverdue(order, now) \/ draw.coin >= vendor.baseReliability
    THEN "SHIPPING_DELAYED"
    ELSE IF draw.complete THEN "ARRIVED" ELSE "SHIPPING_ON_TIME"
  ELSE
    IF draw.lost THEN "LOST"
    ELSE IF draw.issue THEN resolveIssue(vendor, draw)
    ELSE IF draw.complete THEN "ARRIVED" ELSE "SHIPPING_DELAYED"

advance_TransitIgnoresOverdue(order, vendor, now, draw) ==
  IF isTerminalStatus(order.status) THEN order.status
  ELSE IF order.status = "PLACED" THEN
    IF isOverdue(order, now) \/ draw.coin >= vendor.baseReliability
    THEN "SHIPPING_DELAYED" ELSE "SHIPPING_ON_TIME"
  ELSE IF order.status = "SHIPPING_ON_TIME" THEN
    IF draw.coin >= vendor.baseReliability
    THEN "SHIPPING_DELAYED"
    ELSE IF draw.complete THEN "ARRIVED" ELSE "SHIPPING_ON_TIME"
  ELSE
    IF draw.lost THEN "LOST"
    ELSE IF draw.issue THEN resolveIssue(vendor, draw)
    ELSE IF draw.complete THEN "ARRIVED" ELSE "SHIPPING_DELAYED"

advance_DelayedNeverResolves(order, vendor, now, draw) ==
  IF isTerminalStatus(order.status) THEN order.status
  ELSE IF order.status = "PLACED" THEN
    IF isOverdue(order, now) \/ draw.coin >= vendor.baseReliability
    THEN "SHIPPING_DELAYED" ELSE "SHIPPING_ON_TIME"
  ELSE IF order.status = "SHIPPING_ON_TIME" THEN
    IF isOverdue(order, now) \/ draw.coin >= vendor.baseReliability
    THEN "SHIPPING_DELAYED"
    ELSE IF draw.complete THEN "ARRIVED" ELSE "SHIPPING_ON_TIME"
  ELSE "SHIPPING_DELAYED"

advance(order, vendor, now, draw) ==
  IF isTerminalStatus(order.status) THEN order.status
  ELSE IF order.status = "PLACED" THEN
    IF isOverdue(order, now) \/ draw.coin >= vendor.baseReliability
    THEN "SHIPPING_DELAYED" ELSE "SHIPPING_ON_TIME"
  ELSE IF order.status = "SHIPPING_ON_TIME" THEN
    IF isOverdue(order, now) \/ draw.coin >= vendor.baseReliability
    THEN "SHIPPING_DELAYED"
    ELSE IF draw.complete THEN "ARRIVED" ELSE "SHIPPING_ON_TIME"
  ELSE
    IF draw.lost THEN "LOST"
    ELSE IF draw.issue THEN resolveIssue(vendor, draw)
    ELSE IF draw.complete THEN "ARRIVED" ELSE "SHIPPING_DELAYED"

NoAdvance == [from |-> "none", to |-> "none", calls |-> 0, overdue |-> FALSE]

AdvParked ==
  /\ advNow = 0
  /\ advLast = NoAdvance
  /\ advOrder = [vendorId |-> "vendor-001", status |-> "PLACED", estimatedDelivery |-> NoDate]

AdvInit ==
  /\ WinParked /\ TrParked /\ SumParked /\ AggParked /\ BackfillParked
  /\ advNow = 0
  /\ advLast = NoAdvance
  /\ \E v \in VendorIds, est \in {NoDate, 1, 2} :
       advOrder = [vendorId |-> v, status |-> "PLACED", estimatedDelivery |-> est]

\* One advance call on the order with the given draw, with the side effect
\* on its status.
AdvanceWith(draw) ==
  LET next == advance(advOrder, VENDORS_MAP(advOrder.vendorId), advNow, draw)
  IN  /\ advOrder' = [advOrder EXCEPT !.status = next]
      /\ advLast' = [from |-> advOrder.status, to |-> next,
                     calls |-> IF advLast.calls < 2 THEN advLast.calls + 1 ELSE 2,
                     overdue |-> isOverdue(advOrder, advNow)]
      /\ UNCHANGED <<advNow, winVars, trVars, sumVars, aggVars, backfillVars>>

AdvanceOrder == \E draw \in Draws : AdvanceWith(draw)

AdvTick ==
  /\ advNow < MaxNow
  /\ advNow' = advNow + 1
  /\ UNCHANGED <<advOrder, advLast, winVars, trVars, sumVars, aggVars, backfillVars>>

AdvNext == AdvanceOrder \/ AdvTick

SpecAdvance == AdvInit /\ [][AdvNext]_vars

\* The order keeps being advanced and the random source is fair: a draw
\* that would change the order's state is not withheld forever.
SpecAdvanceFair ==
  AdvInit /\ [][AdvNext]_vars /\ \A draw \in Draws : WF_vars(AdvanceWith(draw))

\* --------------------------------------- one window of a vendor report
\* The delivery dates of an input order: none, delivered at the estimated
\* time, delivered after it.
DeliveryCases == {<<NoDate, NoDate>>, <<5, 5>>, <<5, 6>>}

WinInit ==
  /\ AdvParked /\ TrParked /\ SumParked /\ AggParked /\ BackfillParked
  /\ winOrders = <<>>
  /\ winMetrics = WindowMetrics(<<>>)
  /\ scoreCounts = calculateStatusCounts(<<>>)
  /\ scoreValue = 0 - 1

WinAddOrder ==
  /\ Len(winOrders) < MaxWindowOrders
  /\ \E status \in OrderStatus, d \in DeliveryCases :
       LET order == [status |-> status, estimatedDelivery |-> d[1],
                     actualDelivery |-> d[2]]
       IN  /\ winOrders' = Append(winOrders, order)
           /\ winMetrics' = WindowMetrics(winOrders')
  /\ UNCHANGED <<scoreCounts, scoreValue, advVars, trVars, sumVars, aggVars, backfillVars>>

WinNext == WinAddOrder

SpecWindow == WinInit /\ [][WinNext]_vars

\* --------------------------------------------------- the reliability score
\* calculateReliabilityScore on the status counts of a window with up to
\* MaxArrived ARRIVED, MaxLost LOST and MaxPlaced PLACED orders.
MaxArrived == 23

MaxLost == 17

MaxPlaced == 1

ScoreInit ==
  /\ AdvParked /\ TrParked /\ SumParked /\ AggParked /\ BackfillParked
  /\ winOrders = <<>>
  /\ winMetrics = WindowMetrics(<<>>)
  /\ \E arrived \in 0..MaxArrived, lost \in 0..MaxLost, placed \in 0..MaxPlaced :
       scoreCounts = [calculateStatusCounts(<<>>) EXCEPT !["ARRIVED"] = arrived,
                                                        !["LOST"] = lost,
                                                        !["PLACED"] = placed]
  /\ scoreValue = 0 - 1

ScoreApply ==
  /\ scoreValue < 0
  /\ scoreValue' = calculateReliabilityScore(scoreCounts)
  /\ UNCHANGED <<scoreCounts, winOrders, winMetrics, advVars, trVars, sumVars, aggVars,
                 backfillVars>>

ScoreNext == ScoreApply

SpecScore == ScoreInit /\ [][ScoreNext]_vars

\* ------------------------------------------------------- trend direction
\* Reliability scores are integers in 0..MaxScore.
MaxScore == 100

TrInit ==
  /\ AdvParked /\ WinParked /\ SumParked /\ AggParked /\ BackfillParked
  /\ trCurrent \in 0..MaxScore
  /\ trPrevious \in 0..MaxScore
  /\ trDirection = "none"

TrApply ==
  /\ trDirection = "none"
  /\ trDirection' = calculateTrendDirection(trCurrent, trPrevious)
  /\ UNCHANGED <<trCurrent, trPrevious, advVars, winVars, sumVars, aggVars, backfillVars>>

TrNext == TrApply

SpecTrend == TrInit /\ [][TrNext]_vars

\* ------------------------------------- one window of the dashboard summary
SummaryInputStatuses == {"SHIPPING_DELAYED", "ARRIVED", "DAMAGED"}

SumInit ==
  /\ AdvParked /\ WinParked /\ TrParked /\ AggParked /\ BackfillParked
  /\ sumOrders = <<>>
  /\ sumWindow = SummaryWindow(<<>>)

SumAddOrder ==
  /\ Len(sumOrders) < MaxSummaryOrders
  /\ \E v \in VendorIds, status \in SummaryInputStatuses :
       LET order == [vendorId |-> v, status |-> status,
                     isDelayed |-> status # "ARRIVED"]
       IN  /\ sumOrders' = Append(sumOrders, order)
           /\ sumWindow' = SummaryWindow(sumOrders')
  /\ UNCHANGED <<advVars, trVars, winVars, aggVars, backfillVars>>

SumNext == SumAddOrder

SpecSummary == SumInit /\ [][SumNext]_vars

\* ---------------------------------- the aggregate run against the store
\* Orders reach the table from the live driver (created PLACED at the clock
\* value, then advanced) and from the backfill (terminal, created in the
\* past); the clock moves on between any two steps. An order id is a pair:
\* the live driver's ids are unique (a negative serial), the backfill's are
\* the base date and the random suffix.
InputVendors == {BACKFILL_VENDORS[1].vendorId, BACKFILL_VENDORS[2].vendorId}

\* The base dates (start of day) of the backfilled orders written here: the
\* day at the boundary of the two windows and the day before it.
BackfillCreatedAt ==
  {cutoffDate(0, CurrentDaysBack), cutoffDate(0, CurrentDaysBack + 1)}

\* The draws of the backfilled orders written here: a rush order created at
\* the first time of day, delivered at the estimate or lost a tick after it.
BackfillWriteDraws ==
  [suffix : 1..MaxSuffix,
   timeOfDay : {(6 * TicksPerDay) \div 24},
   isRush : {TRUE},
   random : {0, RandomSteps - 1},
   days : {2},
   jitter : {0},
   common : {FALSE},
   pick : {0},
   offset : {1}]

\* The orders an earlier backfill has left in the two windows, one per
\* catalog vendor and window: created 3 days and 9 days before clock value
\* 0, delivered at the estimate for the first four vendors and lost for the
\* last one.
HistoryDraw(i) ==
  [suffix |-> i,
   timeOfDay |-> (6 * TicksPerDay) \div 24,
   isRush |-> TRUE,
   random |-> IF i < NumVendors THEN 0 ELSE RandomSteps - 1,
   days |-> 2,
   jitter |-> 0,
   common |-> FALSE,
   pick |-> 0,
   offset |-> 1]

HistoryOrders ==
  [k \in 1..2 * NumVendors |->
     createBackfilledOrder(cutoffDate(0, IF k <= NumVendors THEN 3 ELSE 9),
                           BACKFILL_VENDORS[((k - 1) % NumVendors) + 1],
                           HistoryDraw(((k - 1) % NumVendors) + 1))]

\* The number of orders of the table that are not of the history: MaxOrders
\* bounds the orders written on top of it.
writtenOrders(table) ==
  Len(table) - (IF table # <<>> /\ table[1] = HistoryOrders[1] THEN Len(HistoryOrders) ELSE 0)

AggInit == AggParked /\ AdvParked /\ WinParked /\ TrParked /\ SumParked /\ BackfillParked

\* An earlier invocation of the backfill has written the history, before
\* any invocation observed here.
BackfillHistory ==
  /\ pc = "idle"
  /\ bfPc = "idle"
  /\ ordersTable = <<>>
  /\ ordersTable' = BatchWrite(ordersTable, HistoryOrders)
  /\ UNCHANGED <<otherVars, clock, reportsTable, runVars>>

\* The side effects of a transition on the order: the updated timestamp is
\* now, the delayed flag is recomputed against the estimate, and on reaching
\* ARRIVED the actual delivery and the delivery days are stamped.
stampTransition(order, next, now) ==
  LET Stamped(updated) ==
        IF next = "ARRIVED"
        THEN [f \in DOMAIN updated \cup {"deliveryDays"} |->
                IF f = "deliveryDays" THEN CeilDays(now - order.createdAt) ELSE updated[f]]
        ELSE updated
  IN  Stamped([order EXCEPT
                 !.status = next,
                 !.updatedAt = now,
                 !.isDelayed = calculateIsDelayed(order.estimatedDelivery, now),
                 !.actualDelivery = IF next = "ARRIVED" THEN now ELSE NoDate])

\* The writes to the orders table and the steps of the clock that are
\* followed: any number while no invocation of the report generator is in
\* progress, and at most MaxChangesDuringRun during one.
ChangeAllowed == pc \in {"idle", "done"} \/ changesDuringRun < MaxChangesDuringRun

ChangeCounted ==
  /\ changesDuringRun' = IF pc \in {"idle", "done"} THEN changesDuringRun
                          ELSE changesDuringRun + 1
  /\ UNCHANGED <<pureVars, bfVars, graphVars, batchVars, prevReports, inputChanged>>

LiveCreateOrder ==
  /\ ChangeAllowed
  /\ writtenOrders(ordersTable) < MaxOrders
  /\ \E v \in InputVendors :
       ordersTable' = Append(ordersTable,
         [orderId |-> <<clock, 0 - (Len(ordersTable) + 1)>>, vendorId |-> v,
          status |-> "PLACED",
          createdAt |-> clock, updatedAt |-> clock,
          estimatedDelivery |-> clock + TicksPerDay, actualDelivery |-> NoDate,
          isDelayed |-> FALSE])
  /\ ChangeCounted
  /\ UNCHANGED <<clock, reportsTable, runVars>>

LiveAdvanceOrder ==
  /\ ChangeAllowed
  /\ \E id \in 1..Len(ordersTable) :
       LET order == ordersTable[id]
       IN  /\ ~isTerminalStatus(order.status)
           /\ \E next \in {advance(order, VENDORS_MAP(order.vendorId), clock, draw) :
                             draw \in Draws} :
               ordersTable' = [ordersTable EXCEPT ![id] = stampTransition(order, next, clock)]
  /\ ChangeCounted
  /\ UNCHANGED <<clock, reportsTable, runVars>>

BackfillWriteOrder ==
  /\ ChangeAllowed
  /\ \E v \in InputVendors, baseDate \in BackfillCreatedAt, draw \in BackfillWriteDraws :
       LET order == createBackfilledOrder(baseDate, VENDORS_MAP(v), draw)
       IN  /\ \/ writtenOrders(ordersTable) < MaxOrders
              \/ \E i \in 1..Len(ordersTable) : ordersTable[i].orderId = order.orderId
           /\ ordersTable' = PutOrder(ordersTable, order)
  /\ ChangeCounted
  /\ UNCHANGED <<clock, reportsTable, runVars>>

Tick ==
  /\ ChangeAllowed
  /\ clock < MaxClock
  /\ clock' = clock + 1
  /\ ChangeCounted
  /\ UNCHANGED <<ordersTable, reportsTable, runVars>>

\* The body of an invocation's start: the handler's locals are fresh.
BeginRun ==
  /\ pc' = "vendor_current"
  /\ vendorIndex' = 1
  /\ reports' = <<>>
  /\ current7dOrders' = <<>>
  /\ previous7dOrders' = <<>>
  /\ previousOnlyOrders' = <<>>
  /\ dashboardSummary' = NoSummary
  /\ response' = NoResponse
  /\ runs' = runs + 1
  /\ storeCalls' = 0
  /\ failedCall' = 0
  /\ scanCutoff' = NoDate
  /\ UNCHANGED <<pureVars, graphVars, batchVars, storeVars>>

\* The first invocation of the handler.
StartRun ==
  /\ pc = "idle"
  /\ BeginRun
  /\ inputChanged' = FALSE
  /\ changesDuringRun' = 0
  /\ UNCHANGED <<prevReports, bfVars>>

\* A further invocation, after the one before it has returned. The event
\* source is the stream of the orders table (batchSize 10, no
\* parallelization factor): it hands the function the batches of one shard
\* one at a time and waits for each return. The invocations followed here
\* are those of one shard; invocations for two shards, which may overlap,
\* are not followed.
StartNextRun ==
  /\ pc = "done"
  /\ runs < MaxRuns
  /\ BeginRun
  /\ prevReports' = IF inputChanged THEN <<>> ELSE reports
  /\ inputChanged' = FALSE
  /\ changesDuringRun' = 0
  /\ UNCHANGED bfVars

\* getVendorOrders up to its await: the cutoff is computed from new Date()
\* and the ScanCommand is sent with it.
VendorScanSend ==
  /\ pc \in {"vendor_current", "vendor_previous"}
  /\ scanCutoff = NoDate
  /\ scanCutoff' = cutoffDate(clock, IF pc = "vendor_current" THEN CurrentDaysBack
                                     ELSE PreviousDaysBack)
  /\ UNCHANGED <<otherVars, storeVars, pc, vendorIndex, current7dOrders, previous7dOrders,
                 previousOnlyOrders, reports, dashboardSummary, response, runs,
                 storeCalls, failedCall>>

\* The store evaluates the request on the table as it is by then, and the
\* handler resumes with the result.
VendorScanCurrent ==
  /\ pc = "vendor_current"
  /\ scanCutoff # NoDate
  /\ current7dOrders' = getVendorOrders(ordersTable,
        BACKFILL_VENDORS[vendorIndex].vendorId, scanCutoff)
  /\ scanCutoff' = NoDate
  /\ pc' = "vendor_previous"
  /\ storeCalls' = storeCalls + 1
  /\ UNCHANGED <<otherVars, storeVars, vendorIndex, previous7dOrders, previousOnlyOrders,
                 reports, dashboardSummary, response, runs, failedCall>>

VendorScanPrevious ==
  /\ pc = "vendor_previous"
  /\ scanCutoff # NoDate
  /\ previous7dOrders' = getVendorOrders(ordersTable,
        BACKFILL_VENDORS[vendorIndex].vendorId, scanCutoff)
  /\ scanCutoff' = NoDate
  /\ pc' = "vendor_report"
  /\ storeCalls' = storeCalls + 1
  /\ UNCHANGED <<otherVars, storeVars, vendorIndex, current7dOrders, previousOnlyOrders,
                 reports, dashboardSummary, response, runs, failedCall>>

\* generateVendorReport from the result of its second scan on, and the
\* handler up to the await of the put: the previous window is filtered with
\* a new Date(), the report is built and pushed to reports, and the
\* PutCommand is sent.
VendorBuildReport ==
  /\ pc = "vendor_report"
  /\ previousOnlyOrders' = previousOnly(previous7dOrders, clock)
  /\ reports' = Append(reports,
        VendorReportOf(BACKFILL_VENDORS[vendorIndex].vendorId,
                       current7dOrders, previousOnlyOrders', clock))
  /\ pc' = "vendor_put"
  /\ UNCHANGED <<otherVars, storeVars, vendorIndex, current7dOrders, previous7dOrders,
                 dashboardSummary, response, runs, storeCalls, failedCall, scanCutoff>>

\* The PutCommand of the report pushed last is answered: the store replaces
\* the item, or the command is refused and the handler's catch returns 500.
VendorWriteReport ==
  /\ pc = "vendor_put"
  /\ storeCalls' = storeCalls + 1
  /\ IF PutAccepted(reports[Len(reports)])
     THEN /\ reportsTable' = PutReport(reportsTable, reports[Len(reports)])
          /\ pc' = IF vendorIndex = NumVendors THEN "summary_current"
                   ELSE "vendor_current"
          /\ vendorIndex' = IF vendorIndex = NumVendors THEN vendorIndex
                            ELSE vendorIndex + 1
          /\ UNCHANGED <<response, failedCall>>
     ELSE /\ pc' = "done"
          /\ response' = [statusCode |-> 500]
          /\ failedCall' = storeCalls'
          /\ UNCHANGED <<reportsTable, vendorIndex>>
  /\ UNCHANGED <<otherVars, ordersTable, clock, current7dOrders, previous7dOrders,
                 previousOnlyOrders, reports, dashboardSummary, runs, scanCutoff>>

\* getAllOrders up to its await.
SummaryScanSend ==
  /\ pc \in {"summary_current", "summary_previous"}
  /\ scanCutoff = NoDate
  /\ scanCutoff' = cutoffDate(clock, IF pc = "summary_current" THEN CurrentDaysBack
                                     ELSE PreviousDaysBack)
  /\ UNCHANGED <<otherVars, storeVars, pc, vendorIndex, current7dOrders, previous7dOrders,
                 previousOnlyOrders, reports, dashboardSummary, response, runs,
                 storeCalls, failedCall>>

SummaryScanCurrent ==
  /\ pc = "summary_current"
  /\ scanCutoff # NoDate
  /\ current7dOrders' = getAllOrders(ordersTable, scanCutoff)
  /\ scanCutoff' = NoDate
  /\ pc' = "summary_previous"
  /\ storeCalls' = storeCalls + 1
  /\ UNCHANGED <<otherVars, storeVars, vendorIndex, previous7dOrders, previousOnlyOrders,
                 reports, dashboardSummary, response, runs, failedCall>>

SummaryScanPrevious ==
  /\ pc = "summary_previous"
  /\ scanCutoff # NoDate
  /\ previous7dOrders' = getAllOrders(ordersTable, scanCutoff)
  /\ scanCutoff' = NoDate
  /\ pc' = "summary_write"
  /\ storeCalls' = storeCalls + 1
  /\ UNCHANGED <<otherVars, storeVars, vendorIndex, current7dOrders, previousOnlyOrders,
                 reports, dashboardSummary, response, runs, failedCall>>

\* generateDashboardSummary from the result of its second scan on, and the
\* handler up to the await of the put of the summary.
SummaryBuild ==
  /\ pc = "summary_write"
  /\ previousOnlyOrders' = previousOnly(previous7dOrders, clock)
  /\ dashboardSummary' = DashboardSummaryOf(current7dOrders, previousOnlyOrders', clock)
  /\ pc' = "summary_put"
  /\ UNCHANGED <<otherVars, storeVars, vendorIndex, current7dOrders, previous7dOrders,
                 reports, response, runs, storeCalls, failedCall, scanCutoff>>

\* The PutCommand of the summary is answered.
SummaryWrite ==
  /\ pc = "summary_put"
  /\ storeCalls' = storeCalls + 1
  /\ IF PutAccepted(dashboardSummary)
     THEN /\ reportsTable' = PutReport(reportsTable, dashboardSummary)
          /\ response' = [statusCode |-> 200]
          /\ UNCHANGED failedCall
     ELSE /\ response' = [statusCode |-> 500]
          /\ failedCall' = storeCalls'
          /\ UNCHANGED reportsTable
  /\ pc' = "done"
  /\ UNCHANGED <<otherVars, ordersTable, clock, vendorIndex, current7dOrders, previous7dOrders,
                 previousOnlyOrders, reports, dashboardSummary, runs, scanCutoff>>

\* A store call that is in flight throws for a reason of the store or of
\* the network (a scan that has been sent, the put of a vendor report): the
\* handler's catch block logs the error and returns statusCode 500. (The put
\* of the summary is refused in any case, see SummaryWrite.)
StoreCallFails ==
  /\ \/ pc = "vendor_put"
     \/ /\ pc \in {"vendor_current", "vendor_previous", "summary_current", "summary_previous"}
        /\ scanCutoff # NoDate
  /\ scanCutoff' = NoDate
  /\ storeCalls' = storeCalls + 1
  /\ failedCall' = storeCalls'
  /\ pc' = "done"
  /\ response' = [statusCode |-> 500]
  /\ UNCHANGED <<otherVars, storeVars, vendorIndex, current7dOrders, previous7dOrders,
                 previousOnlyOrders, reports, dashboardSummary, runs>>

\* What the event source sees of a finished invocation: the invocation has
\* failed, and the retry policy of the event source applies, when the
\* handler's promise rejected; a handler that returns a value has succeeded,
\* whatever statusCode the value carries.
invocationFailed == pc = "done" /\ response = NoResponse

AggNext ==
  \/ BackfillHistory
  \/ LiveCreateOrder
  \/ LiveAdvanceOrder
  \/ BackfillWriteOrder
  \/ Tick
  \/ StartRun
  \/ VendorScanSend
  \/ VendorScanCurrent
  \/ VendorScanPrevious
  \/ VendorBuildReport
  \/ VendorWriteReport
  \/ SummaryScanSend
  \/ SummaryScanCurrent
  \/ SummaryScanPrevious
  \/ SummaryBuild
  \/ SummaryWrite
  \/ StoreCallFails

Spec == AggInit /\ [][AggNext]_vars

\* ------------------------------------------ repeated aggregate runs
\* The handler is invoked again and again; orders are written and the clock
\* moves at any time, between two invocations and during one (during one, at
\* most MaxChangesDuringRun times). The orders written here are those of
\* the first vendor with the first suffix.
RerunWriteOrder ==
  /\ pc \in {"idle", "done"} \/ changesDuringRun < MaxChangesDuringRun
  /\ \E baseDate \in BackfillCreatedAt, draw \in {d \in BackfillWriteDraws : d.suffix = 1} :
       LET order == createBackfilledOrder(baseDate, BACKFILL_VENDORS[1], draw)
       IN  /\ \/ writtenOrders(ordersTable) < MaxOrders
              \/ \E i \in 1..Len(ordersTable) : ordersTable[i].orderId = order.orderId
           /\ ordersTable' = PutOrder(ordersTable, order)
  /\ inputChanged' = TRUE
  /\ changesDuringRun' = IF pc \in {"idle", "done"} THEN changesDuringRun
                          ELSE changesDuringRun + 1
  /\ UNCHANGED <<pureVars, bfVars, graphVars, batchVars, clock, reportsTable, runVars, prevReports>>

RerunTick ==
  /\ pc \in {"idle", "done"} \/ changesDuringRun < MaxChangesDuringRun
  /\ clock < MaxClock
  /\ clock' = clock + 1
  /\ inputChanged' = TRUE
  /\ changesDuringRun' = IF pc \in {"idle", "done"} THEN changesDuringRun
                          ELSE changesDuringRun + 1
  /\ UNCHANGED <<pureVars, bfVars, graphVars, batchVars, ordersTable, reportsTable, runVars, prevReports>>

RerunNext ==
  \/ BackfillHistory
  \/ RerunWriteOrder
  \/ RerunTick
  \/ StartRun
  \/ StartNextRun
  \/ VendorScanSend
  \/ VendorScanCurrent
  \/ VendorScanPrevious
  \/ VendorBuildReport
  \/ VendorWriteReport
  \/ SummaryScanSend
  \/ SummaryScanCurrent
  \/ SummaryScanPrevious
  \/ SummaryBuild
  \/ SummaryWrite
  \/ StoreCallFails

SpecRerun == AggInit /\ [][RerunNext]_vars

\* ------------------------------------------ the data-backfill handler
BackfillRandoms == {0, 1}

\* The day of the week of the day clock value 0 lies in: a Sunday or a
\* Monday, so that the days before it are business days and weekend days.
EpochDays == {0, 1}

\* date.getDay() of the date that lies in the given day.
getDay(date) == (bfEpochDay + DateOf(date) + 7 * (MaxBackfillDays + 1)) % 7

BfStart ==
  /\ bfPc = "idle"
  /\ bfPc' = "generate"
  /\ bfEpochDay' \in EpochDays
  /\ bfDay' = 0 - MaxBackfillDays
  /\ UNCHANGED <<bfDailyOrders, bfI, bfRequests, totalOrderCount, bfResponse, bfCalls,
                 bfFailedCall, bfUnprocessed, bfDropped, bfTriggerLen,
                 pureVars, rerunVars, graphVars, batchVars, storeVars, runVars>>

\* One iteration of the day loop up to the call of batchWriteOrders: the
\* date is new Date() moved by day days and set to the start of its day,
\* and the order count is drawn for the day of the week of that date.
BfGenerateDay ==
  /\ bfPc = "generate"
  /\ \E random \in BackfillRandoms :
       LET date == cutoffDate(DateOf(clock) * TicksPerDay, 0 - bfDay)
           dailyOrderCount == calculateDailyOrderCount(getDay(date), random)
       IN  /\ bfDailyOrders' = generateDailyOrders(date, dailyOrderCount)
           /\ totalOrderCount' = totalOrderCount + dailyOrderCount
  /\ bfI' = 0
  /\ bfRequests' = <<>>
  /\ bfUnprocessed' = <<>>
  /\ bfPc' = "write"
  /\ UNCHANGED <<bfEpochDay, bfDay, bfResponse, bfCalls, bfFailedCall, bfDropped,
                 bfTriggerLen,
                 pureVars, rerunVars, graphVars, batchVars, storeVars, runVars>>

\* One iteration of the loop of batchWriteOrders whose BatchWriteCommand
\* does not throw: the store puts the items of the request except the
\* unprocessed last ones, which it returns as UnprocessedItems, and the
\* loop, which does not read the response, goes on. After the last request
\* of a day the day loop goes on or the handler returns.
batchAnswered(unprocessed) ==
  /\ bfPc = "write"
  /\ bfI < Len(bfDailyOrders)
  /\ ChangeAllowed
  /\ LET Answered(batch) ==
           /\ ordersTable' = BatchWrite(ordersTable,
                                 SubSeq(batch, 1, Len(batch) - unprocessed))
           /\ bfRequests' = Append(bfRequests, batch)
           /\ bfUnprocessed' = Append(bfUnprocessed,
                 SubSeq(batch, Len(batch) - unprocessed + 1, Len(batch)))
     IN  Answered(batchSlice(bfDailyOrders, bfI))
  /\ bfDropped' = bfDropped + unprocessed
  /\ bfCalls' = bfCalls + 1
  /\ changesDuringRun' = IF pc \in {"idle", "done"} THEN changesDuringRun
                          ELSE changesDuringRun + 1
  /\ bfI' = bfI + batchSize
  /\ IF bfI' < Len(bfDailyOrders)
     THEN UNCHANGED <<bfPc, bfDay, bfResponse>>
     ELSE /\ bfDay' = bfDay + 1
          /\ bfPc' = IF bfDay' <= 0 - 1 THEN "generate" ELSE "done"
          /\ bfResponse' = IF bfDay' <= 0 - 1 THEN bfResponse ELSE [statusCode |-> 200]
  /\ UNCHANGED <<bfEpochDay, bfDailyOrders, totalOrderCount, bfFailedCall, bfTriggerLen,
                 prevReports, inputChanged,
                 pureVars, graphVars, batchVars, clock, reportsTable, runVars>>

\* The store puts every item of the request.
BfWriteBatch ==
  /\ bfPc = "write"
  /\ batchAnswered(0)

\* The store returns items of the request as UnprocessedItems.
BfWritePartial ==
  /\ bfPc = "write"
  /\ bfI < Len(bfDailyOrders)
  /\ \E unprocessed \in 1..Min(MaxUnprocessed - bfDropped,
                                Len(batchSlice(bfDailyOrders, bfI))) :
       batchAnswered(unprocessed)

\* The BatchWriteCommand throws: the handler's catch returns 500.
BfBatchFails ==
  /\ bfPc = "write"
  /\ bfI < Len(bfDailyOrders)
  /\ bfCalls' = bfCalls + 1
  /\ bfFailedCall' = bfCalls'
  /\ bfPc' = "done"
  /\ bfResponse' = [statusCode |-> 500]
  /\ UNCHANGED <<bfEpochDay, bfDay, bfDailyOrders, bfI, bfRequests, totalOrderCount,
                 bfUnprocessed, bfDropped, bfTriggerLen,
                 pureVars, rerunVars, graphVars, batchVars, storeVars, runVars>>

\* The handler of the backfill, with the clock moving while it runs.
BfNext ==
  \/ BfStart
  \/ BfGenerateDay
  \/ BfWriteBatch
  \/ BfWritePartial
  \/ BfBatchFails
  \/ Tick

SpecBackfill == AggInit /\ [][BfNext]_vars

\* --------------------------- the report generator on the orders stream
\* The stream of the orders table invokes the report generator as soon as
\* records are in it: the table has changed, and the backfill may still be
\* sending requests. An invocation that has returned may be followed by
\* another.
BfStartRun ==
  /\ Len(ordersTable) > 0
  /\ pc \in {"idle", "done"}
  /\ runs < MaxStreamRuns
  /\ BeginRun
  /\ bfTriggerLen' = Len(ordersTable)
  /\ changesDuringRun' = 0
  /\ inputChanged' = FALSE
  /\ UNCHANGED <<prevReports, bfPc, bfEpochDay, bfDay, bfDailyOrders, bfI, bfRequests,
                 totalOrderCount, bfResponse, bfCalls, bfFailedCall, bfUnprocessed,
                 bfDropped>>

\* The backfill handler and the report generator on one store, with the
\* clock moving: the requests of the backfill are answered before, between
\* and during the invocations of the generator. The store puts every item
\* of a request here; its answers with UnprocessedItems are followed in
\* SpecBackfill.
StreamNext ==
  \/ BackfillHistory
  \/ BfStart
  \/ BfGenerateDay
  \/ BfWriteBatch
  \/ BfBatchFails
  \/ Tick
  \/ BfStartRun
  \/ VendorScanSend
  \/ VendorScanCurrent
  \/ VendorScanPrevious
  \/ VendorBuildReport
  \/ VendorWriteReport
  \/ SummaryScanSend
  \/ SummaryScanCurrent
  \/ SummaryScanPrevious
  \/ SummaryBuild
  \/ SummaryWrite
  \/ StoreCallFails

SpecStream == AggInit /\ [][StreamNext]_vars

\* ------------------------------------------- a batch of advance calls
\* The tagged result of advance on one order: an order whose vendor id is
\* not in the catalog is an error and keeps its status.
advanceResult_DefaultVendor(order, now, draw) ==
  [ok |-> TRUE,
   status |-> advance(order,
                      IF order.vendorId \in VendorIds THEN VENDORS_MAP(order.vendorId)
                      ELSE BACKFILL_VENDORS[1],
                      now, draw)]

advanceResult(order, now, draw) ==
  IF order.vendorId \notin VendorIds
  THEN [ok |-> FALSE, status |-> order.status]
  ELSE [ok |-> TRUE, status |-> advance(order, VENDORS_MAP(order.vendorId), now, draw)]

\* A status-change notification is emitted when the status has changed.
emitsStatusChange_Always(from, to) == TRUE

emitsStatusChange(from, to) == from # to

UnknownVendorId == "vendor-999"

BatchInputOrders ==
  [vendorId : {"vendor-001", "vendor-005", UnknownVendorId},
   status : {"PLACED", "SHIPPING_ON_TIME", "SHIPPING_DELAYED", "ARRIVED"},
   estimatedDelivery : {0 - 1, 1},
   updatedAt : {0 - 1}]

BatchReceive ==
  /\ batchIndex = 0
  /\ \E orders \in [1..BatchLen -> BatchInputOrders] :
       /\ batchInput' = orders
       /\ batchOrders' = orders
  /\ batchIndex' = 1
  /\ UNCHANGED <<batchResult, batchEvents, pureVars, rerunVars, bfVars, graphVars,
                 storeVars, runVars>>

\* The batch handles its next order at now = 0: one advance call and its
\* side effects, or a skip with an error report.
BatchAdvance ==
  /\ batchIndex \in 1..Len(batchOrders)
  /\ \E draw \in Draws :
       LET order == batchOrders[batchIndex]
           result == advanceResult(order, 0, draw)
       IN  IF result.ok
           THEN /\ batchOrders' = [batchOrders EXCEPT ![batchIndex] =
                     [order EXCEPT !.status = result.status, !.updatedAt = 0]]
                /\ batchResult' = [batchResult EXCEPT !.processed = @ + 1]
                /\ batchEvents' =
                     IF emitsStatusChange(order.status, result.status)
                     THEN Append(batchEvents, [index |-> batchIndex,
                                               from |-> order.status,
                                               to |-> result.status])
                     ELSE batchEvents
           ELSE /\ batchResult' = [batchResult EXCEPT !.skipped = @ + 1,
                                                      !.errors = Append(@, batchIndex)]
                /\ UNCHANGED <<batchOrders, batchEvents>>
  /\ batchIndex' = batchIndex + 1
  /\ UNCHANGED <<batchInput, pureVars, rerunVars, bfVars, graphVars, storeVars, runVars>>

BatchNext == BatchReceive \/ BatchAdvance

SpecBatch == AggInit /\ [][BatchNext]_vars

\* ------------------------------------------- the transition guard
\* An order starts in any status; every requested status change is put to
\* canTransitionTo and applied only when the guard accepts it.
GraphStart ==
  /\ gPath = <<>>
  /\ \E from \in OrderStatus : gPath' = <<from>>
  /\ UNCHANGED <<gTried, pureVars, rerunVars, bfVars, batchVars, storeVars, runVars>>

GraphTry ==
  /\ gPath # <<>>
  /\ Len(gPath) < MaxPathLen
  /\ \E to \in OrderStatus :
       LET accepted == canTransitionTo(gPath[Len(gPath)], to)
       IN  /\ gTried' = [to |-> to, accepted |-> accepted]
           /\ gPath' = IF accepted THEN Append(gPath, to) ELSE gPath
  /\ UNCHANGED <<pureVars, rerunVars, bfVars, batchVars, storeVars, runVars>>

GraphNext == GraphStart \/ GraphTry

SpecGraph == AggInit /\ [][GraphNext]_vars

\* ------------------------------------------- the backfill's daily count
PureParked == AdvParked /\ WinParked /\ TrParked /\ SumParked /\ AggParked

CntInit ==
  /\ PureParked /\ SelParked /\ GenParked
  /\ cntDayOfWeek \in 0..6
  /\ cntRandom \in Random
  /\ cntCount = NoCount

CntApply ==
  /\ cntCount = NoCount
  /\ cntCount' = calculateDailyOrderCount(cntDayOfWeek, cntRandom)
  /\ UNCHANGED <<cntDayOfWeek, cntRandom, selVars, genOrder, advVars, winVars, trVars,
                 sumVars, aggVars>>

CntNext == CntApply

SpecDailyCount == CntInit /\ [][CntNext]_vars

\* ------------------------------------------- the weighted vendor selector
SelPick ==
  /\ Len(selPicks) < MaxPicks
  /\ \E random \in Random :
       /\ selRandom' = random
       /\ selPicks' = Append(selPicks, selectWeightedVendor(random).vendorId)
  /\ UNCHANGED <<cntVars, genOrder, advVars, winVars, trVars, sumVars, aggVars>>

SelNext == SelPick

SpecSelector == AggInit /\ [][SelNext]_vars

\* ------------------------------------------- one order of the backfill
\* One draw of the vendor selector for each vendor of the catalog.
VendorRandoms ==
  {(2 * RandomSteps * i - RandomSteps) \div (2 * NumVendors) : i \in 1..NumVendors}

GenCreateOrder ==
  /\ genOrder = NoOrder
  /\ \E random \in VendorRandoms, draw \in ProgressionDraws :
       genOrder' = createBackfilledOrder(0, selectWeightedVendor(random), draw)
  /\ UNCHANGED <<cntVars, selVars, advVars, winVars, trVars, sumVars, aggVars>>

GenNext == GenCreateOrder

SpecProgression == AggInit /\ [][GenNext]_vars

\* ------------------------------ orders under creation and status update
\* An order is created by the live driver or by the backfill (with every
\* draw of its progression) and the live driver advances it while the clock
\* runs to MaxNow, past the order's estimate.
OrdersTick ==
  /\ clock < MaxNow
  /\ clock' = clock + 1
  /\ UNCHANGED <<otherVars, ordersTable, reportsTable, runVars>>

BackfillCreateOrder ==
  /\ writtenOrders(ordersTable) < MaxOrders
  /\ \E random \in VendorRandoms, draw \in ProgressionDraws :
       ordersTable' = PutOrder(ordersTable,
                               createBackfilledOrder(0, selectWeightedVendor(random), draw))
  /\ UNCHANGED <<otherVars, clock, reportsTable, runVars>>

OrdersNext ==
  \/ LiveCreateOrder
  \/ LiveAdvanceOrder
  \/ BackfillCreateOrder
  \/ OrdersTick

SpecOrders == AggInit /\ [][OrdersNext]_vars

\* ------------------------------------------------------------ claims
C1Terminal == {"ARRIVED", "LOST", "DAMAGED", "UNDELIVERABLE", "RETURN_TO_SENDER"}

\* C1: once the order is in a terminal status, no step (any number of
\* advance calls, at any time, with any draw) changes its status, and the
\* transition table has no transition out of that status.
C1_TerminalNeverChanges ==
  [][advOrder.status \in C1Terminal =>
       /\ advOrder'.status = advOrder.status
       /\ \A to \in OrderStatus : ~canTransitionTo(advOrder.status, to)]_vars

C1_Witness ==
  /\ advLast.from \in C1Terminal
  /\ advLast.to = advLast.from
  /\ advLast.calls = 2

C2Next(from) ==
  CASE from = "PLACED" -> {"SHIPPING_ON_TIME", "SHIPPING_DELAYED"}
    [] from = "SHIPPING_ON_TIME" -> {"SHIPPING_DELAYED", "ARRIVED", "SHIPPING_ON_TIME"}
    [] from = "SHIPPING_DELAYED" ->
         {"ARRIVED", "LOST", "DAMAGED", "UNDELIVERABLE", "RETURN_TO_SENDER",
          "SHIPPING_DELAYED"}
    [] OTHER -> {from}

\* C2: every advance call returns a status the graph allows from the status
\* it was called on: PLACED -> SHIPPING_*, SHIPPING_ON_TIME -> SHIPPING_DELAYED,
\* ARRIVED or itself, SHIPPING_DELAYED -> a terminal status or itself.
C2_AdvanceFollowsGraph ==
  advLast.calls > 0 => advLast.to \in C2Next(advLast.from)

C2_Witness ==
  /\ advLast.from = "SHIPPING_DELAYED"
  /\ advLast.to = "RETURN_TO_SENDER"

C3Completed(orders) ==
  {i \in 1..Len(orders) : orders[i].status \in C1Terminal}

C3Arrived(orders) == {i \in 1..Len(orders) : orders[i].status = "ARRIVED"}

RECURSIVE SumCounts(_, _)
SumCounts(counts, statuses) ==
  IF statuses = {} THEN 0
  ELSE LET s == CHOOSE x \in statuses : TRUE
       IN  counts[s] + SumCounts(counts, statuses \ {s})

\* round(numerator / denominator * 100), halves going up.
C3Round(numerator, denominator) == (200 * numerator + denominator) \div (2 * denominator)

\* C3: the reliability score computed from the status counts of a window is
\* round(ARRIVED / completed * 100), completed being the number of orders in
\* a terminal status; it lies in [0,100], and it is 0 when the window has no
\* completed order.
C3_ReliabilityScoreRange ==
  scoreValue >= 0 =>
    LET completed == SumCounts(scoreCounts, C1Terminal)
        arrived == scoreCounts["ARRIVED"]
    IN  /\ scoreValue \in 0..100
        /\ completed = 0 => scoreValue = 0
        /\ completed > 0 => scoreValue = C3Round(arrived, completed)

\* C4: the eight per-status counts of a window add up to its totalOrders.
C4_StatusCountsSumToTotal ==
  /\ DOMAIN winMetrics.statusCounts = OrderStatus
  /\ SumCounts(winMetrics.statusCounts, OrderStatus) = winMetrics.totalOrders
  /\ winMetrics.totalOrders = Len(winOrders)

C4_Witness ==
  /\ winMetrics.totalOrders = 3
  /\ winMetrics.statusCounts["PLACED"] = 1
  /\ winMetrics.statusCounts["ARRIVED"] = 1
  /\ winMetrics.statusCounts["RETURN_TO_SENDER"] = 1

\* C8: the on-time percentage of a window is round(onTimeDeliveries /
\* number of ARRIVED orders * 100), and 0 when nothing arrived.
C8_OnTimePercentageOfArrived ==
  LET arrived == Cardinality(C3Arrived(winOrders))
  IN  winMetrics.onTimePercentage =
        IF arrived = 0 THEN 0
        ELSE C3Round(winMetrics.onTimeDeliveries, arrived)

\* C6: for previous > 0 the direction is stable exactly when
\* |current - previous| / previous < 0.05 (20 * |current - previous| < previous),
\* and otherwise up when current > previous and down when current < previous.
C6_TrendDirection ==
  (trDirection # "none" /\ trPrevious > 0) =>
    /\ trDirection = "stable" <=> 20 * Abs(trCurrent - trPrevious) < trPrevious
    /\ trDirection = "up" =>  trCurrent > trPrevious
    /\ trDirection = "down" => trCurrent < trPrevious
    /\ (trCurrent = 90 /\ trPrevious = 80) => trDirection = "up"
    /\ (trCurrent = 82 /\ trPrevious = 80) => trDirection = "stable"

C6_Witness ==
  trCurrent = 84 /\ trPrevious = 80 /\ trDirection = "up"

C9VendorsWithOrders(orders) ==
  {v \in VendorIds : \E i \in 1..Len(orders) : orders[i].vendorId = v}

C9Score(orders, v) ==
  LET mine == {i \in 1..Len(orders) : orders[i].vendorId = v}
      completed == {i \in mine : orders[i].status \in C1Terminal}
      arrived == {i \in mine : orders[i].status = "ARRIVED"}
  IN  IF completed = {} THEN 0
      ELSE RoundPercent(Cardinality(arrived), Cardinality(completed))

RECURSIVE C9ScoreSum(_, _)
C9ScoreSum(orders, vendors) ==
  IF vendors = {} THEN 0
  ELSE LET v == CHOOSE x \in vendors : TRUE
       IN  C9Score(orders, v) + C9ScoreSum(orders, vendors \ {v})

\* C9 as stated: overallReliability is exactly the mean of the scores of the
\* vendors with an order in the window, and 0 when there is none.
C9_ExactMean ==
  LET with == C9VendorsWithOrders(sumOrders)
  IN  sumWindow.overallReliabilityX100 * Cardinality(with)
        = 100 * C9ScoreSum(sumOrders, with)

\* C9 amended: overallReliability is that mean rounded to two decimals
\* (Math.round of the mean times 100, divided by 100), and 0 when no vendor
\* has an order in the window.
C9_MeanRoundedToHundredths ==
  LET with == C9VendorsWithOrders(sumOrders)
      n == Cardinality(with)
      total == C9ScoreSum(sumOrders, with)
      x == sumWindow.overallReliabilityX100
  IN  /\ n = 0 => x = 0
      /\ n > 0 => /\ 2 * n * x <= 200 * total + n
                  /\ 200 * total + n < 2 * n * (x + 1)

C9_Witness ==
  /\ Cardinality(C9VendorsWithOrders(sumOrders)) = 2
  /\ Len(sumOrders) = 3
  /\ sumWindow.overallReliabilityX100 = 7500

C5Ids(orders) == {orders[i].orderId : i \in 1..Len(orders)}

\* True in the states reached by the step that filtered the previous window:
\* current7dOrders and previousOnlyOrders are then the two windows of one
\* report (or of the summary).
C5WindowsBuilt ==
  \/ pc \in {"vendor_put", "summary_put"}
  \/ pc \in {"vendor_current", "summary_current"} /\ Len(reports) >= 1
  \/ pc = "done" /\ dashboardSummary # NoSummary

\* C5: the two windows of one report partition the orders by createdAt with
\* one value of now: no order is in both the current and the previous window
\* (an order created exactly at now - 7d is in the current window only).
C5_WindowsDisjoint ==
  C5WindowsBuilt => C5Ids(current7dOrders) \cap C5Ids(previousOnlyOrders) = {}

\* C7: a stored VendorReport whose current and previous reliability scores
\* are both 0 has trend direction stable.
C7_ZeroScoresAreStable ==
  \A r \in reportsTable :
    (r.current7d.reliabilityScore = 0 /\ r.previous7d.reliabilityScore = 0)
      => r.trends.trendDirection = "stable"

C10ReportScores(rs) ==
  LET counted == SelectSeq(rs, LAMBDA r : r.current7d.totalOrders >= 1)
  IN  [i \in 1..Len(counted) |-> counted[i].current7d.reliabilityScore]

\* C10: the summary a finished run produced has the current overallReliability
\* that the VendorReports of the same run give: the mean (to two decimals) of
\* the current reliabilityScore of the reports with current totalOrders >= 1.
C10_SummaryDerivedFromReports ==
  (pc = "done" /\ dashboardSummary # NoSummary) =>
    dashboardSummary.current7d.overallReliabilityX100
      = overallReliabilityX100(C10ReportScores(reports))

\* C12 as stated: atRiskVendors of a window is the number of catalog vendors
\* whose reliability score for the window (the score their VendorReport
\* carries, 0 for a vendor without completed orders) is below 85.
C12_AtRiskCountsReportScores ==
  sumWindow.atRiskVendors
    = Cardinality({v \in VendorIds : isVendorAtRisk(C9Score(sumOrders, v))})

\* C14: an advance call on an order that is overdue (now later than its
\* estimatedDelivery) and in PLACED or SHIPPING_ON_TIME returns
\* SHIPPING_DELAYED, for every vendor and every draw.
C14_OverdueGoesToDelayed ==
  (advLast.calls > 0 /\ advLast.overdue
     /\ advLast.from \in {"PLACED", "SHIPPING_ON_TIME"})
    => advLast.to = "SHIPPING_DELAYED"

C14_Witness ==
  /\ advLast.overdue
  /\ advLast.from = "SHIPPING_ON_TIME"
  /\ advLast.to = "SHIPPING_DELAYED"
  /\ VENDORS_MAP(advOrder.vendorId).baseReliability = 95

\* C15: with the range [50,200] and the multipliers 1.5 and 0.6 the count of
\* a day is, for every draw, in [30,120] on a Saturday or Sunday and in
\* [75,300] on a weekday.
C15_DailyCountRange ==
  cntCount # NoCount =>
    IF cntDayOfWeek \in {0, 6}
    THEN 30 <= cntCount /\ cntCount <= 120
    ELSE 75 <= cntCount /\ cntCount <= 300

C15_Witness ==
  cntDayOfWeek = 0 /\ cntCount = 120

C16Ceil10(percent) ==
  CHOOSE w \in 0..10 : 10 * (w - 1) < percent /\ percent <= 10 * w

RECURSIVE C16Cumulative(_)
C16Cumulative(i) ==
  IF i = 0 THEN 0
  ELSE C16Cumulative(i - 1) + C16Ceil10(BACKFILL_VENDORS[i].baseReliability)

\* C16: vendor i of the catalog has exactly ceil(reliability * 10) slots in
\* the weight table, the slots after those of the vendors before it; a draw
\* selects the catalog vendor that owns slot floor(random * total weight), and
\* every slot is the slot of some draw.
C16_SelectorWeights ==
  LET table == weightedVendors(1)
      total == C16Cumulative(NumVendors)
  IN  /\ Len(table) = total
      /\ \A i \in 1..NumVendors :
            {k \in 1..Len(table) : table[k].vendorId = BACKFILL_VENDORS[i].vendorId}
              = (C16Cumulative(i - 1) + 1) .. C16Cumulative(i)
      /\ \A k \in 1..total : \E random \in Random :
            (random * total) \div RandomSteps = k - 1
      /\ selPicks # <<>> =>
            LET slot == (selRandom * total) \div RandomSteps + 1
                picked == selPicks[Len(selPicks)]
            IN  /\ picked \in VendorIds
                /\ \E i \in 1..NumVendors :
                      /\ BACKFILL_VENDORS[i].vendorId = picked
                      /\ C16Cumulative(i - 1) < slot
                      /\ slot <= C16Cumulative(i)

C16_Witness ==
  /\ Len(selPicks) = 2
  /\ selPicks[1] = "vendor-005"
  /\ selPicks[2] = "vendor-001"

C13IsLive(order) == "isBackfilled" \notin DOMAIN order

\* C13: after the creation of an order and after every status update, by
\* the live driver or by the backfill, an order whose estimatedDelivery is
\* earlier than its updatedAt has its delayed flag set, whatever its status;
\* and the flag of an order of the live driver is never stale: after every
\* mutation it is the value calculateIsDelayed gives for the order's
\* estimatedDelivery and the updatedAt the mutation has set.
C13_LateOrderIsDelayed ==
  \A i \in 1..Len(ordersTable) :
    /\ ordersTable[i].estimatedDelivery < ordersTable[i].updatedAt => ordersTable[i].isDelayed
    /\ C13IsLive(ordersTable[i]) =>
          ordersTable[i].isDelayed
            = calculateIsDelayed(ordersTable[i].estimatedDelivery, ordersTable[i].updatedAt)

\* A live order that was updated after its estimate and has arrived since.
C13_Witness ==
  \E i \in 1..Len(ordersTable) :
    /\ C13IsLive(ordersTable[i])
    /\ ordersTable[i].status = "ARRIVED"
    /\ ordersTable[i].estimatedDelivery < ordersTable[i].updatedAt
    /\ ordersTable[i].createdAt < ordersTable[i].updatedAt
    /\ ordersTable[i].isDelayed

\* C17: writing a new order never replaces an order stored under the same
\* id: after every step each stored order id still identifies the order it
\* was created as (same vendor, creation time and estimate).
C17_CreateNeverReplaces ==
  [][\A i \in 1..Len(ordersTable) :
       \E j \in 1..Len(ordersTable') :
         /\ ordersTable'[j].orderId = ordersTable[i].orderId
         /\ ordersTable'[j].vendorId = ordersTable[i].vendorId
         /\ ordersTable'[j].createdAt = ordersTable[i].createdAt
         /\ ordersTable'[j].estimatedDelivery = ordersTable[i].estimatedDelivery]_vars

\* The run has gone through the catalog: it is in the summary phase, or it
\* has returned after it (a successful run is such a run).
C11VendorLoopDone ==
  \/ pc \in {"summary_current", "summary_previous", "summary_write", "summary_put"}
  \/ pc = "done" /\ storeCalls > 3 * NumVendors

\* The put of the i-th report of the run has been answered, and it was not
\* made to fail by a fault of the store or of the network: the store has
\* accepted it, or it has thrown because of the item itself.
C11PutAnswered(i) ==
  /\ i < Len(reports) \/ pc # "vendor_put"
  /\ ~(failedCall = 3 * i /\ PutAccepted(reports[i]))

C11AllZero(r) ==
  /\ \A w \in {r.current7d, r.previous7d} :
        /\ \A status \in OrderStatus : w.statusCounts[status] = 0
        /\ w.totalOrders = 0
        /\ w.onTimeDeliveries = 0
        /\ w.onTimePercentage = 0
        /\ w.issueCount = 0
        /\ w.reliabilityScore = 0
  /\ r.trends.reliabilityScoreDelta = 0
  /\ r.trends.volumeDelta = 0
  /\ r.trends.onTimePercentageDelta = 0
  /\ r.trends.issueCountDelta = 0

\* C11: the store holds the VendorReport a run has generated and put for a
\* catalog vendor, unless a fault of the store made the put fail; the report
\* of a vendor with no order in either window is put and stored like the
\* others and has all counts, percentages, scores and deltas 0; and a run
\* that has gone through the catalog has generated a report for every vendor.
C11_ReportForEveryVendor ==
  /\ \A i \in 1..Len(reports) :
        /\ reports[i].vendorId = BACKFILL_VENDORS[i].vendorId
        /\ C11PutAnswered(i) => reports[i] \in reportsTable
        /\ (reports[i].current7d.totalOrders = 0 /\ reports[i].previous7d.totalOrders = 0)
              => C11AllZero(reports[i])
  /\ C11VendorLoopDone => Len(reports) = NumVendors

C20Timeless(r) == [r EXCEPT !.updatedAt = 0]

\* C20: (1) an invocation that runs on the same stored orders at the same
\* now as the invocation before it, neither having changed since it started,
\* generates, vendor by vendor, the same VendorReport apart from updatedAt;
\* (2) the store never holds two reports for one vendor and date; (3) once
\* the put of a report has been answered, without a fault of the store, the
\* one report stored for its vendor and date is that report, whatever an
\* earlier invocation stored.
C20_RerunReplacesReports ==
  /\ (runs >= 2 /\ ~inputChanged) =>
        \A i \in 1..Min(Len(reports), Len(prevReports)) :
          C20Timeless(reports[i]) = C20Timeless(prevReports[i])
  /\ \A r1, r2 \in reportsTable :
        (r1.vendorId = r2.vendorId /\ r1.date = r2.date) => r1 = r2
  /\ \A i \in 1..Len(reports) :
        /\ reports[i].vendorId = BACKFILL_VENDORS[i].vendorId
        /\ C11PutAnswered(i) =>
              {r \in reportsTable : r.vendorId = reports[i].vendorId
                                       /\ r.date = reports[i].date}
                = {reports[i]}

RECURSIVE C18Concat(_)
C18Concat(requests) ==
  IF requests = <<>> THEN <<>>
  ELSE Head(requests) \o C18Concat(Tail(requests))

C18DayWritten == bfPc = "generate" \/ (bfPc = "done" /\ bfFailedCall = 0)

\* C18: every batch-write request of the backfill carries at least 1 and at
\* most 25 orders; the requests sent so far for a day, concatenated in the
\* order they were sent, are the first orders of that day's generated list,
\* and once the day is written they are exactly that list.
C18_BatchRequests ==
  /\ \A j \in 1..Len(bfRequests) : Len(bfRequests[j]) \in 1..25
  /\ LET sent == C18Concat(bfRequests)
     IN  /\ Len(sent) <= Len(bfDailyOrders)
         /\ sent = SubSeq(bfDailyOrders, 1, Len(sent))
         /\ C18DayWritten => sent = bfDailyOrders

C18_Witness ==
  /\ bfPc = "generate"
  /\ bfFailedCall = 0
  /\ Len(bfDailyOrders) = 76
  /\ Len(bfRequests) = 4
  /\ Len(bfRequests[4]) = 1

C19Stored == {ordersTable[i] : i \in 1..Len(ordersTable)}

C19Unprocessed(j) == {bfUnprocessed[j][k] : k \in 1..Len(bfUnprocessed[j])}

\* C19: once a store call of the backfill or of the aggregate run has
\* failed, by throwing or by leaving items of a batch-write request
\* unwritten, the invocation has returned with status 500 and the failed
\* call is the last store call it issued; the orders written by the requests
\* sent before the failure and the VendorReports put before the failure are
\* in the store, then and afterwards.
C19_FailureStopsInvocation ==
  /\ failedCall > 0 =>
        /\ pc = "done"
        /\ storeCalls = failedCall
        /\ response = [statusCode |-> 500]
        /\ \A i \in 1..Min((failedCall - 1) \div 3, NumVendors) :
              reports[i] \in reportsTable
  /\ bfFailedCall > 0 =>
        /\ bfPc = "done"
        /\ bfCalls = bfFailedCall
        /\ bfResponse = [statusCode |-> 500]
  /\ bfDropped > 0 =>
        /\ bfPc = "done"
        /\ bfResponse = [statusCode |-> 500]
        /\ bfUnprocessed # <<>> /\ bfUnprocessed[Len(bfUnprocessed)] # <<>>
  /\ bfI = batchSize * Len(bfRequests)
  /\ \A j \in 1..Len(bfRequests) : \A m \in 1..Len(bfRequests[j]) :
        bfRequests[j][m] \in C19Stored \cup C19Unprocessed(j)
  /\ Len(ordersTable)
       = totalOrderCount - Len(bfDailyOrders) + Len(C18Concat(bfRequests)) - bfDropped

\* C26: every order the backfill creates has a terminal status, is marked
\* isBackfilled and belongs to a vendor of the catalog.
C26_BackfilledOrdersAreTerminal ==
  genOrder # NoOrder =>
    /\ isTerminalStatus(genOrder.status)
    /\ genOrder.status \notin {"PLACED", "SHIPPING_ON_TIME", "SHIPPING_DELAYED"}
    /\ genOrder.isBackfilled
    /\ genOrder.vendorId \in VendorIds

C26_Witness ==
  /\ genOrder # NoOrder
  /\ genOrder.status = "RETURN_TO_SENDER"
  /\ genOrder.vendorId = "vendor-005"
  /\ genOrder.isBackfilled

\* C24: an order whose status is not ARRIVED carries neither an
\* actualDelivery timestamp nor a deliveryDays value.
C24_DeliveryFieldsOnlyOnArrival ==
  (genOrder # NoOrder /\ genOrder.status # "ARRIVED") =>
    /\ genOrder.actualDelivery = NoDate
    /\ genOrder.deliveryDays = NoDate

\* C25: a backfilled order's isDelayed flag is true exactly when its
\* updatedAt is strictly later than its estimatedDelivery.
C25_DelayedIffLate ==
  genOrder # NoOrder =>
    (genOrder.isDelayed <=> genOrder.updatedAt > genOrder.estimatedDelivery)

\* C29: every record the run puts into the reports table, the vendor
\* reports and the dashboard summary, carries the table's key attributes
\* vendorId and date, and a run in which no store call was made to fail
\* returns statusCode 200 once the summary is generated.
C29HasKeys(item) == {"vendorId", "date"} \subseteq DOMAIN item

C29_PutsCarryKeys ==
  /\ \A i \in 1..Len(reports) : C29HasKeys(reports[i])
  /\ dashboardSummary # NoSummary => C29HasKeys(dashboardSummary)
  /\ (pc = "done" /\ dashboardSummary # NoSummary) => response = [statusCode |-> 200]

\* C23: an invocation of the report generator in which a store call failed
\* ends as a failed invocation for the event source.
C23_FailureSurfacesToTrigger ==
  (pc = "done" /\ failedCall > 0) => invocationFailed

C28PolicyChanges ==
  {<<"PLACED", "SHIPPING_ON_TIME">>, <<"PLACED", "SHIPPING_DELAYED">>,
   <<"SHIPPING_ON_TIME", "SHIPPING_DELAYED">>, <<"SHIPPING_ON_TIME", "ARRIVED">>,
   <<"SHIPPING_DELAYED", "ARRIVED">>, <<"SHIPPING_DELAYED", "LOST">>,
   <<"SHIPPING_DELAYED", "DAMAGED">>, <<"SHIPPING_DELAYED", "UNDELIVERABLE">>,
   <<"SHIPPING_DELAYED", "RETURN_TO_SENDER">>}

\* C28: canTransitionTo accepts every status change of the policy of
\* section 4.1, rejects every self-loop and every transition out of a
\* terminal status; an order whose changes are guarded by it never has the
\* same status twice and changes status at most 3 times, a requested
\* self-loop or a request on a terminal order being refused.
C28_GuardAcceptsPolicyAndIsAcyclic ==
  /\ \A change \in C28PolicyChanges : canTransitionTo(change[1], change[2])
  /\ \A status \in OrderStatus : ~canTransitionTo(status, status)
  /\ \A from \in OrderStatus : isTerminalStatus(from) =>
        \A to \in OrderStatus : ~canTransitionTo(from, to)
  /\ Len(gPath) <= 1 + 3
  /\ \A i, j \in 1..Len(gPath) : gPath[i] = gPath[j] => i = j
  /\ gTried.accepted =>
        /\ Len(gPath) > 1
        /\ gPath[Len(gPath)] = gTried.to
        /\ ~isTerminalStatus(gPath[Len(gPath) - 1])

C28_Witness ==
  /\ gPath = <<"PLACED", "SHIPPING_ON_TIME", "SHIPPING_DELAYED", "RETURN_TO_SENDER">>
  /\ gTried = [to |-> "ARRIVED", accepted |-> FALSE]

C22Handled == 1 .. (batchIndex - 1)

C22Unknown == {i \in C22Handled : batchInput[i].vendorId \notin VendorIds}

\* C22: an order of the batch whose vendor id is not in the catalog is left
\* as it was received and is counted as skipped with an error report naming
\* it; every other order the batch has reached was given to advance and is
\* counted as processed, also the orders after an unknown one.
C22_UnknownVendorIsSkipped ==
  /\ \A i \in C22Unknown : batchOrders[i] = batchInput[i]
  /\ batchResult.skipped = Cardinality(C22Unknown)
  /\ {batchResult.errors[k] : k \in 1..Len(batchResult.errors)} = C22Unknown
  /\ Len(batchResult.errors) = batchResult.skipped
  /\ batchResult.processed = Cardinality(C22Handled \ C22Unknown)
  /\ \A i \in C22Handled \ C22Unknown :
        /\ batchOrders[i].updatedAt = 0
        /\ batchOrders[i].status \in C2Next(batchInput[i].status)
  /\ batchOrders # <<>> => batchIndex <= Len(batchOrders) + 1

C22_Witness ==
  /\ batchIndex = BatchLen + 1
  /\ batchInput[1].vendorId = UnknownVendorId
  /\ batchInput[1].status = "PLACED"
  /\ batchOrders[1] = batchInput[1]
  /\ batchResult = [processed |-> 1, skipped |-> 1, errors |-> <<1>>]
  /\ batchInput[BatchLen].status = "SHIPPING_DELAYED"
  /\ batchOrders[BatchLen].status = "LOST"

C27Changed == {i \in C22Handled : batchOrders[i].status # batchInput[i].status}

\* C27: the notifications emitted by the advance steps of a batch are, in
\* order, exactly the steps that changed the order's status, each with the
\* status before and after; a step that leaves the status as it is (a
\* self-loop, an advance on a terminal order) emits nothing.
C27_NotificationIffStatusChanged ==
  /\ {batchEvents[k].index : k \in 1..Len(batchEvents)} = C27Changed
  /\ Len(batchEvents) = Cardinality(C27Changed)
  /\ \A k \in 1..Len(batchEvents) :
        /\ batchEvents[k].from = batchInput[batchEvents[k].index].status
        /\ batchEvents[k].to = batchOrders[batchEvents[k].index].status
        /\ batchEvents[k].from # batchEvents[k].to

C27_Witness ==
  /\ batchIndex = BatchLen + 1
  /\ batchInput[1].vendorId = "vendor-001"
  /\ batchInput[1].status = "SHIPPING_ON_TIME"
  /\ batchOrders[1].status = "SHIPPING_ON_TIME"
  /\ batchInput[BatchLen].status = "ARRIVED"
  /\ batchInput[BatchLen].vendorId = "vendor-005"
  /\ batchEvents = <<>>

\* C30: under fairness of the random draws an order that keeps being
\* advanced eventually has a terminal status.
C30_EventuallyTerminal == <>isTerminalStatus(advOrder.status)

C30_Witness ==
  /\ advLast.calls = 2
  /\ advLast.from = "SHIPPING_DELAYED"
  /\ advLast.to = "ARRIVED"
  /\ advOrder.status = "ARRIVED"

\* The orders that were stored when the order stream invoked the report
\* generator, by vendor and status, as far as they fall into the current
\* window.
C21Stored(vendorId, status) ==
  {j \in 1..bfTriggerLen :
     /\ ordersTable[j].vendorId = vendorId
     /\ ordersTable[j].status = status
     /\ ordersTable[j].createdAt >= cutoffDate(clock, CurrentDaysBack)}

\* C21: a run started by the notifications of the backfill's writes has
\* read every order that was stored when it was invoked: each report the run
\* has generated counts, status by status, at least the orders of its vendor
\* that were stored then and fall into the current window.
C21_RunReadsWrittenOrders ==
  \A i \in 1..Len(reports) : \A status \in OrderStatus :
    reports[i].current7d.statusCounts[status]
      >= Cardinality(C21Stored(BACKFILL_VENDORS[i].vendorId, status))
====
